---- MODULE Spec2Model ----
(***************************************************************************)
(* A model of pygaarst.mtlutils: the line sanitizer, the line classifier,  *)
(* the state machine (_checkstatus / _transstat), the value type           *)
(* inferencer (_postprocess) and the entry point (parsemeta /              *)
(* _parsemetastream).                                                      *)
(*                                                                         *)
(* A Python str is a sequence of one-character strings, so that            *)
(* startswith, split, strip, `in` and the regular expressions are computed *)
(* on characters as the code computes them.  The only whitespace character *)
(* of the modelled inputs is the blank.                                    *)
(***************************************************************************)
EXTENDS Integers, Sequences, FiniteSets, TLC

VARIABLES
    pc,          \* position of the current parsemeta call: "reading", "returned", "raised"
    status,      \* _parsemetastream: status
    grouppath,   \* _parsemetastream: grouppath, a list of (name, 'g' | 'o')
    dictpath,    \* _parsemetastream: dictpath, a list of references into metadata
    metadata,    \* _parsemetastream: metadata, the root OrderedDict
    exc,         \* the exception that ended the call ("none" while there is none)
    result,      \* what parsemeta returned (NoResult until it returns)
    hist,        \* the lines the current call has read from the stream, sanitized,
                 \* each with the grouppath its iteration left behind
    memo,        \* one earlier parsemeta call: its input and its outcome
    ncalls,      \* number of parsemeta calls started so far
    arg,         \* _postprocess: its argument valuestr
    stage,      \* _postprocess: the step about to be tried (an index of PostSteps)
    outcome,     \* _postprocess: what it returned or raised (Pending before)
    metadataloc, \* parsemeta: its argument, a directory or a file (AStream where
                 \* the call is given the lines one by one)
    metadatastr  \* parsemeta: the file it opens (unbound before it is chosen)

vars == <<pc, status, grouppath, dictpath, metadata, exc, result, hist, memo, ncalls,
          arg, stage, outcome, metadataloc, metadatastr>>

----------------------------------------------------------------------------
(* Python str operations on character sequences *)

IsSpace(c) == c = " "

RECURSIVE LStrip(_)
LStrip(s) == IF s # <<>> /\ IsSpace(Head(s)) THEN LStrip(Tail(s)) ELSE s

RECURSIVE RStrip(_)
RStrip(s) ==
    IF s # <<>> /\ IsSpace(s[Len(s)]) THEN RStrip(SubSeq(s, 1, Len(s) - 1)) ELSE s

\* str.strip()
Strip(s) == RStrip(LStrip(s))

\* str.startswith(prefix)
StartsWith(s, prefix) ==
    /\ Len(prefix) <= Len(s)
    /\ SubSeq(s, 1, Len(prefix)) = prefix

\* str.endswith(suffix)
EndsWith(s, suffix) ==
    /\ Len(suffix) <= Len(s)
    /\ SubSeq(s, Len(s) - Len(suffix) + 1, Len(s)) = suffix

\* c in s
Contains(s, c) == \E i \in 1..Len(s) : s[i] = c

\* str.split(sep) for a non-empty sep: the pieces between the non-overlapping
\* occurrences of sep, found from left to right
RECURSIVE SplitFrom(_, _, _)
SplitFrom(s, sep, acc) ==
    IF s = <<>> THEN <<acc>>
    ELSE IF StartsWith(s, sep)
         THEN <<acc>> \o SplitFrom(SubSeq(s, Len(sep) + 1, Len(s)), sep, <<>>)
         ELSE SplitFrom(Tail(s), sep, Append(acc, Head(s)))

Split(s, sep) == SplitFrom(s, sep, <<>>)

\* str.replace(c, "") for a one-character c
RECURSIVE Remove(_, _)
Remove(s, c) ==
    IF s = <<>> THEN <<>>
    ELSE IF Head(s) = c THEN Remove(Tail(s), c)
         ELSE <<Head(s)>> \o Remove(Tail(s), c)

\* seq[-1]
Last(seq) == seq[Len(seq)]

\* del seq[-1]
DelLast(seq) == SubSeq(seq, 1, Len(seq) - 1)

----------------------------------------------------------------------------
(* Elements of the file format *)

GRPSTART == <<"G","R","O","U","P","=">>
GRPEND == <<"E","N","D","_","G","R","O","U","P","=">>
OBJSTART == <<"O","B","J","E","C","T","=">>
OBJEND == <<"E","N","D","_","O","B","J","E","C","T","=">>
ASSIGNCHAR == "="
FINAL == <<"E","N","D">>
INFORMATIONCONTENT ==
    <<"I","N","F","O","R","M","A","T","I","O","N","C","O","N","T","E","N","T">>
\* A mutation of IGNOREGROUPS: no group is ignored
IgnoreNothing == {}
IGNOREGROUPS == {INFORMATIONCONTENT}
ADDITIONALATTRIBUTENAME ==
    <<"A","D","D","I","T","I","O","N","A","L","A","T","T","R","I","B","U","T","E",
      "N","A","M","E">>
PARAMETERVALUE == <<"P","A","R","A","M","E","T","E","R","V","A","L","U","E">>
VALUE == <<"V","A","L","U","E">>

\* STATUSCODE is a list of five names, for the status codes 0..4
STATUSCODE == <<"begin", "enter metadata group", "add metadata item",
                "leave metadata group", "end">>

\* the status _checkstatus hands back when it falls off its end (Python's None),
\* a value different from every status code
NoneStatus == 0 - 1

----------------------------------------------------------------------------
(* Line sanitization *)

\* the number of leading whitespace characters of s
RECURSIVE SpaceRun(_)
SpaceRun(s) == IF s # <<>> /\ IsSpace(Head(s)) THEN 1 + SpaceRun(Tail(s)) ELSE 0

\* the length of the match of \s+=\s+ at the start of s, 0 when there is none
SepMatch(s) ==
    LET a == SpaceRun(s)
        rest == SubSeq(s, a + 1, Len(s))
        b == IF rest # <<>> /\ Head(rest) = "=" THEN SpaceRun(Tail(rest)) ELSE 0
    IN  IF a > 0 /\ b > 0 THEN a + 1 + b ELSE 0

\* re.sub(r'\s+=\s+', '=', line): leftmost non-overlapping matches
RECURSIVE SubSep(_)
SubSep(s) ==
    IF s = <<>> THEN <<>>
    ELSE IF SepMatch(s) > 0
         THEN <<"=">> \o SubSep(SubSeq(s, SepMatch(s) + 1, Len(s)))
         ELSE <<Head(s)>> \o SubSep(Tail(s))

\* _sanitizeline: the three SANITIZEPAT substitutions, in order
Sanitizeline(line) == RStrip(LStrip(SubSep(line)))

----------------------------------------------------------------------------
(* Line classification *)

Islinetype(line, testchar) == StartsWith(Strip(line), testchar)

Isassignment(line) == Contains(line, ASSIGNCHAR)

Isfinal(line) == Strip(line) = FINAL

Getgroupname(line) == Last(Split(Strip(line), GRPSTART))

Getendgroupname(line) == Last(Split(Strip(line), GRPEND))

Getobjname(line) == Last(Split(Strip(line), OBJSTART))

Getendobjname(line) == Last(Split(Strip(line), OBJEND))

Getmetadataitem(line) == Split(Strip(line), <<ASSIGNCHAR>>)

----------------------------------------------------------------------------
(* _checkstatus *)

\* What a call returns or raises
Ret(v) == [kind |-> "return", val |-> v]
Raise(e) == [kind |-> "raise", val |-> e]

\* newstatus as the if/elif chain of the status computes it (0: no branch taken)
Newstatus(st, line) ==
    IF st = 0 THEN
        IF Islinetype(line, GRPSTART) THEN 1
        ELSE IF Isfinal(line) THEN 4
        ELSE 0
    ELSE IF st = 1 THEN
        IF Islinetype(line, GRPSTART) THEN 1
        ELSE IF Islinetype(line, GRPEND) THEN 3
        ELSE IF Islinetype(line, OBJSTART) THEN 5
        ELSE IF Isassignment(line) THEN 2
        ELSE 0
    ELSE IF st = 2 THEN
        IF Islinetype(line, GRPEND) THEN 3
        ELSE IF Islinetype(line, GRPSTART) THEN 1
        ELSE IF Islinetype(line, OBJSTART) THEN 5
        ELSE IF Islinetype(line, OBJEND) THEN 6
        ELSE IF Isassignment(line) THEN 2
        ELSE 0
    ELSE IF st = 3 THEN
        IF Islinetype(line, GRPSTART) THEN 1
        ELSE IF Islinetype(line, GRPEND) THEN 3
        ELSE IF Isfinal(line) THEN 4
        ELSE IF Islinetype(line, OBJSTART) THEN 5
        ELSE IF Islinetype(line, OBJEND) THEN 6
        ELSE IF Isassignment(line) THEN 2
        ELSE 0
    ELSE IF st = 5 \/ st = 6 THEN
        IF Islinetype(line, GRPSTART) THEN 1
        ELSE IF Islinetype(line, GRPEND) THEN 3
        ELSE IF Islinetype(line, OBJSTART) THEN 5
        ELSE IF Islinetype(line, OBJEND) THEN 6
        ELSE IF Isassignment(line) THEN 2
        ELSE 0
    ELSE 0

\* A mutation of Checkstatus: an END_OBJECT line is taken for the assignment it
\* also is, in every status
CheckstatusEndObjectAssigns(st, line) ==
    IF Newstatus(st, line) = 6 THEN Ret(2)
    ELSE IF Newstatus(st, line) # 0 THEN Ret(Newstatus(st, line))
    ELSE IF st # 4 THEN
        IF st = NoneStatus THEN Raise("TypeError")
        ELSE IF st + 1 \in 1..Len(STATUSCODE) THEN Raise("MTLParseError")
        ELSE Raise("IndexError")
    ELSE Ret(NoneStatus)

\* A mutation of Checkstatus: at the beginning an assignment is accepted
CheckstatusAssignsAtBegin(st, line) ==
    IF st = 0 /\ Newstatus(st, line) = 0 /\ Isassignment(line) THEN Ret(2)
    ELSE IF Newstatus(st, line) # 0 THEN Ret(Newstatus(st, line))
    ELSE IF st # 4 THEN
        IF st = NoneStatus THEN Raise("TypeError")
        ELSE IF st + 1 \in 1..Len(STATUSCODE) THEN Raise("MTLParseError")
        ELSE Raise("IndexError")
    ELSE Ret(NoneStatus)

\* _checkstatus: the new status; MTLParseError when there is no transition and the
\* status is not 4 (formatting the message indexes STATUSCODE with the status,
\* which fails first for a status STATUSCODE has no name for); None at status 4
Checkstatus(st, line) ==
    IF Newstatus(st, line) # 0 THEN Ret(Newstatus(st, line))
    ELSE IF st # 4 THEN
        IF st = NoneStatus THEN Raise("TypeError")
        ELSE IF st + 1 \in 1..Len(STATUSCODE) THEN Raise("MTLParseError")
        ELSE Raise("IndexError")
    ELSE Ret(NoneStatus)

----------------------------------------------------------------------------
(* Python values.  Every value is a record whose field t names its type. *)

IntVal(n) == [t |-> "int", n |-> n]
\* the float m * 10^e, m not divisible by 10 (the decimal value the float rounds)
FloatVal(m, e) == [t |-> "float", m |-> m, e |-> e]
ComplexVal(re, im) == [t |-> "complex", re |-> re, im |-> im]
StrVal(s) == [t |-> "str", s |-> s]
NoneVal == [t |-> "None"]
BoolVal(b) == [t |-> "bool", b |-> b]
DateVal(y, mo, d) == [t |-> "date", y |-> y, mo |-> mo, d |-> d]
DatetimeVal(y, mo, d, h, mi, sec, us) ==
    [t |-> "datetime", y |-> y, mo |-> mo, d |-> d, h |-> h, mi |-> mi, sec |-> sec,
     us |-> us]
TimeVal(h, mi, sec, us) == [t |-> "time", h |-> h, mi |-> mi, sec |-> sec, us |-> us]
ListVal(elts) == [t |-> "list", elts |-> elts]
TupleVal(elts) == [t |-> "tuple", elts |-> elts]
\* a plain dict (unordered): pairs is the set of its <<key, value>> items
PlainDictVal(pairs) == [t |-> "dict", pairs |-> pairs]
\* an OrderedDict: items lists its (key, value) pairs in insertion order
ODict(items) == [t |-> "odict", items |-> items]

\* hash(v) succeeds
RECURSIVE Hashable(_)
Hashable(v) ==
    IF v.t \in {"list", "dict", "odict"} THEN FALSE
    ELSE IF v.t = "tuple" THEN \A i \in 1..Len(v.elts) : Hashable(v.elts[i])
    ELSE TRUE

----------------------------------------------------------------------------
(* Characters *)

Digits == <<"0","1","2","3","4","5","6","7","8","9">>
IsDigit(c) == \E i \in 1..10 : Digits[i] = c
DigitVal(c) == (CHOOSE i \in 1..10 : Digits[i] = c) - 1
IsOctDigit(c) == IsDigit(c) /\ DigitVal(c) < 8
Letters ==
    {"A","B","C","D","E","F","G","H","I","J","K","L","M","N","O","P","Q","R","S",
     "T","U","V","W","X","Y","Z","a","b","c","d","e","f","g","h","i","j","k","l",
     "m","n","o","p","q","r","s","t","u","v","w","x","y","z","_"}
IsNameStart(c) == c \in Letters
IsNameChar(c) == c \in Letters \/ IsDigit(c)

\* s[i], or "" beyond the end of s
At(s, i) == IF i \in 1..Len(s) THEN s[i] ELSE ""

\* the first index from i on whose character is no digit
RECURSIVE DigitRun(_, _)
DigitRun(s, i) == IF IsDigit(At(s, i)) THEN DigitRun(s, i + 1) ELSE i

RECURSIVE OctRun(_, _)
OctRun(s, i) == IF IsOctDigit(At(s, i)) THEN OctRun(s, i + 1) ELSE i

RECURSIVE NameRun(_, _)
NameRun(s, i) == IF At(s, i) # "" /\ IsNameChar(At(s, i)) THEN NameRun(s, i + 1) ELSE i

RECURSIVE SkipWs(_, _)
SkipWs(s, i) == IF At(s, i) # "" /\ IsSpace(At(s, i)) THEN SkipWs(s, i + 1) ELSE i

\* the number the digits s[a..b-1] write in the base (0 for no digits)
RECURSIVE DigitsToInt(_, _, _, _)
DigitsToInt(s, a, b, base) ==
    IF b <= a THEN 0
    ELSE DigitsToInt(s, a, b - 1, base) * base + DigitVal(s[b - 1])

RECURSIVE Pow10(_)
Pow10(n) == IF n <= 0 THEN 1 ELSE 10 * Pow10(n - 1)

\* m * 10^e with the trailing zeros of m moved into e
RECURSIVE NormFloat(_, _)
NormFloat(m, e) ==
    IF m = 0 THEN FloatVal(0, 0)
    ELSE IF m % 10 = 0 THEN NormFloat(m \div 10, e + 1)
    ELSE FloatVal(m, e)

\* the float written by the integer digits s[a..b-1], the fraction digits
\* s[c..d-1] and the decimal exponent x
MkFloat(s, a, b, c, d, x) ==
    NormFloat(DigitsToInt(s, a, b, 10) * Pow10(d - c) + DigitsToInt(s, c, d, 10),
              x - (d - c))

NegReal(v) == IF v.t = "int" THEN IntVal(0 - v.n) ELSE FloatVal(0 - v.m, v.e)

NegNum(v) == IF v.t = "complex" THEN ComplexVal(v.re, NegReal(v.im)) ELSE NegReal(v)

----------------------------------------------------------------------------
(* ast.literal_eval (Python 2.7), as _postprocess calls it.                 *)
(*                                                                         *)
(* The string is parsed as an expression and the tree converted.  The      *)
(* parser below knows numbers, names, unary + - ~, binary + -, and tuple,  *)
(* list, dict and set displays; a string it cannot parse counts as a       *)
(* SyntaxError.  As _postprocess catches SyntaxError and ValueError alike, *)
(* this is exact for every string that is in this grammar or holds no dict *)
(* display with an unhashable key, and that writes no number with the      *)
(* prefixes 0x, 0o, 0b.                                                    *)
(***************************************************************************)

Fail == [ok |-> FALSE]
Ok(node, i) == [ok |-> TRUE, node |-> node, i |-> i]

NumNode(v, bare) == [n |-> "Num", v |-> v, bare |-> bare]
NameNode(id) == [n |-> "Name", id |-> id, bare |-> FALSE]
TupleNode(elts) == [n |-> "Tuple", elts |-> elts, bare |-> FALSE]
ListNode(elts) == [n |-> "List", elts |-> elts, bare |-> FALSE]
DictNode(pairs) == [n |-> "Dict", pairs |-> pairs, bare |-> FALSE]
BinOpNode(op, l, r) == [n |-> "BinOp", op |-> op, left |-> l, right |-> r, bare |-> FALSE]
\* a node literal_eval converts nothing of: UnaryOp, Set
OtherNode == [n |-> "Other", bare |-> FALSE]

\* The exponent part of a number at s[d]: its value e and the index i behind
\* it; without an exponent part, the exponent 0 ending at d.  ok tells that
\* the letter e, when there is one, has digits behind it
ExponentAt(s, d) ==
    LET Power(sign, x0, x1) ==
            [ok |-> x1 > x0, e |-> sign * DigitsToInt(s, x0, x1, 10), i |-> x1]
        Signed(sign, x0) == Power(sign, x0, DigitRun(s, x0))
    IN  IF At(s, d) \in {"e", "E"}
        THEN Signed(IF At(s, d + 1) = "-" THEN 0 - 1 ELSE 1,
                    IF At(s, d + 1) \in {"+", "-"} THEN d + 2 ELSE d + 1)
        ELSE [ok |-> TRUE, e |-> 0, i |-> d]

\* The tokenizer's fraction, exponent and imaginary parts of a number whose
\* integer digits are s[a..b-1]; with hasdot, s[b] is the decimal point
FloatTail(s, a, b, hasdot) ==
    LET Token(val, end) ==
            IF At(s, end) \in {"j", "J"}
            THEN Ok(NumNode(ComplexVal(IntVal(0), val), TRUE), end + 1)
            ELSE Ok(NumNode(val, TRUE), end)
        Powered(c, d, x) ==
            IF x.ok THEN Token(MkFloat(s, a, b, c, d, x.e), x.i) ELSE Fail
        Fraction(c, d) == Powered(c, d, ExponentAt(s, d))
        Point(c) == Fraction(c, IF hasdot THEN DigitRun(s, c) ELSE b)
    IN  Point(IF hasdot THEN b + 1 ELSE b)

\* The tokenizer's NUMBER token at s[i], b the end of the decimal digits from
\* s[i] on and c2 the character behind them
ScanNumber(s, i) ==
    LET Token(b, c2) ==
            IF At(s, i) = "0" /\ At(s, i + 1) \in {"x", "X", "o", "O", "b", "B"}
            THEN Fail
            ELSE IF c2 \in {".", "e", "E"} THEN
                IF b = i /\ ~IsDigit(At(s, i + 1)) THEN Fail
                ELSE FloatTail(s, i, b, c2 = ".")
            ELSE IF c2 \in {"j", "J"}
                 THEN Ok(NumNode(ComplexVal(IntVal(0),
                                 IntVal(DigitsToInt(s, i, b, 10))), TRUE), b + 1)
            ELSE IF At(s, i) = "0" /\ b > OctRun(s, i + 1) THEN Fail
            ELSE Ok(NumNode(IntVal(DigitsToInt(s, i, b,
                                               IF At(s, i) = "0" THEN 8 ELSE 10)),
                            TRUE),
                    IF c2 \in {"l", "L"} THEN b + 1 ELSE b)
        Scanned(b) == Token(b, At(s, b))
    IN  Scanned(DigitRun(s, i))

RECURSIVE ParseAtom(_, _), ParseFactor(_, _), ParseArithRest(_, _),
          ParseElts(_, _, _, _, _), ParsePairs(_, _, _)

\* arith_expr: factor (('+' | '-') factor)*
ParseTest(s, i) ==
    LET Rest(l) == IF l.ok THEN ParseArithRest(s, l) ELSE Fail
    IN  Rest(ParseFactor(s, i))

ParseArithRest(s, l) ==
    LET Operand(j, r) ==
            IF At(s, j) \in {"+", "-"}
            THEN IF r.ok
                 THEN ParseArithRest(s, Ok(BinOpNode(At(s, j), l.node, r.node), r.i))
                 ELSE Fail
            ELSE l
        Operator(j) == Operand(j, ParseFactor(s, j + 1))
    IN  Operator(SkipWs(s, l.i))

\* factor: ('+' | '-' | '~') factor | atom.  A minus in front of a NUMBER token
\* is folded into the number; any other unary operation is a UnaryOp node
ParseFactor(s, i0) ==
    LET Unary(i, r) ==
            IF At(s, i) \in {"-", "+", "~"}
            THEN IF ~r.ok THEN Fail
                 ELSE IF At(s, i) = "-" /\ r.node.n = "Num" /\ r.node.bare
                      THEN Ok(NumNode(NegNum(r.node.v), FALSE), r.i)
                      ELSE Ok(OtherNode, r.i)
            ELSE ParseAtom(s, i)
        Factor(i) == Unary(i, ParseFactor(s, i + 1))
    IN  Factor(SkipWs(s, i0))

\* test (',' test)* [','] up to the closer ("" closes at the end of s); the
\* result's node is a TupleNode of the elements, its comma tells whether a
\* comma was read
ParseElts(s, i, closer, acc, comma) ==
    LET Separator(e, j, k) ==
            IF At(s, j) = closer
            THEN [ok |-> TRUE, node |-> TupleNode(Append(acc, e.node)),
                  i |-> j + 1, comma |-> comma]
            ELSE IF At(s, j) = ","
                 THEN IF At(s, k) = closer
                      THEN [ok |-> TRUE, node |-> TupleNode(Append(acc, e.node)),
                            i |-> k + 1, comma |-> TRUE]
                      ELSE ParseElts(s, k, closer, Append(acc, e.node), TRUE)
            ELSE Fail
        Behind(e, j) == Separator(e, j, SkipWs(s, j + 1))
        Element(e) == IF e.ok THEN Behind(e, SkipWs(s, e.i)) ELSE Fail
    IN  Element(ParseTest(s, i))

\* test ':' test (',' test ':' test)* [','] '}'
ParsePairs(s, i, acc) ==
    LET Separator(pairs, m, k) ==
            IF At(s, m) = "}" THEN Ok(DictNode(pairs), m + 1)
            ELSE IF At(s, m) = "," THEN
                IF At(s, k) = "}" THEN Ok(DictNode(pairs), k + 1)
                ELSE ParsePairs(s, k, pairs)
            ELSE Fail
        Behind(pairs, m) == Separator(pairs, m, SkipWs(s, m + 1))
        Pair(key, val) ==
            IF val.ok
            THEN Behind(Append(acc, <<key.node, val.node>>), SkipWs(s, val.i))
            ELSE Fail
        Colon(key, j) ==
            IF At(s, j) = ":" THEN Pair(key, ParseTest(s, j + 1)) ELSE Fail
        Key(key) == IF key.ok THEN Colon(key, SkipWs(s, key.i)) ELSE Fail
    IN  Key(ParseTest(s, i))

\* the bracket that closes the display the bracket c opens
Closer(c) == IF c = "(" THEN ")" ELSE IF c = "[" THEN "]" ELSE "}"

\* atom: NUMBER | NAME | '(' [testlist] ')' | '[' [listmaker] ']'
\*       | '{' [dictorsetmaker] '}'
ParseAtom(s, i0) ==
    LET Display(c, j, elts, dct) ==
            IF c = "(" THEN
                IF At(s, j) = ")" THEN Ok(TupleNode(<<>>), j + 1)
                ELSE IF ~elts.ok THEN Fail
                ELSE IF elts.comma THEN Ok(elts.node, elts.i)
                ELSE Ok([elts.node.elts[1] EXCEPT !.bare = FALSE], elts.i)
            ELSE IF c = "[" THEN
                IF At(s, j) = "]" THEN Ok(ListNode(<<>>), j + 1)
                ELSE IF elts.ok THEN Ok(ListNode(elts.node.elts), elts.i) ELSE Fail
            ELSE IF c = "{" THEN
                IF At(s, j) = "}" THEN Ok(DictNode(<<>>), j + 1)
                ELSE IF dct.ok THEN dct
                ELSE IF elts.ok THEN Ok(OtherNode, elts.i)
                ELSE Fail
            ELSE Fail
        Atom(i, c, j) ==
            IF IsDigit(c) \/ c = "." THEN ScanNumber(s, i)
            ELSE IF c # "" /\ IsNameStart(c)
                 THEN Ok(NameNode(SubSeq(s, i, NameRun(s, i) - 1)), NameRun(s, i))
            ELSE Display(c, j, ParseElts(s, j, Closer(c), <<>>, FALSE),
                         ParsePairs(s, j, <<>>))
        Start(i) == Atom(i, At(s, i), SkipWs(s, i + 1))
    IN  Start(SkipWs(s, i0))

\* parse(source, mode='eval'): the expression's tree, or a SyntaxError
ParseEval(s) ==
    LET Tree(r) ==
            IF s = <<>> \/ ~r.ok THEN Fail
            ELSE IF r.comma THEN Ok(r.node, r.i)
            ELSE Ok(r.node.elts[1], r.i)
    IN  Tree(ParseElts(s, 1, "", <<>>, FALSE))

\* d[k] = v on the pairs of a plain dict
PairsSet(pairs, k, v) == {q \in pairs : q[1] # k} \cup {<<k, v>>}

\* literal_eval's _convert: the node's value; ValueError ('malformed string')
\* for a node that is no literal; TypeError for a dict key that cannot be hashed
RECURSIVE Convert(_), ConvertElts(_, _), ConvertPairs(_, _)
Convert(node) ==
    LET Elements(r) ==
            IF r.kind = "raise" THEN r
            ELSE Ret(IF node.n = "Tuple" THEN TupleVal(r.val) ELSE ListVal(r.val))
        Items(r) == IF r.kind = "raise" THEN r ELSE Ret(PlainDictVal(r.val))
    IN  IF node.n = "Num" THEN Ret(node.v)
        ELSE IF node.n \in {"Tuple", "List"} THEN Elements(ConvertElts(node.elts, <<>>))
        ELSE IF node.n = "Dict" THEN Items(ConvertPairs(node.pairs, {}))
        ELSE IF node.n = "Name" THEN
            IF node.id = <<"N","o","n","e">> THEN Ret(NoneVal)
            ELSE IF node.id = <<"T","r","u","e">> THEN Ret(BoolVal(TRUE))
            ELSE IF node.id = <<"F","a","l","s","e">> THEN Ret(BoolVal(FALSE))
            ELSE Raise("ValueError")
        ELSE IF node.n = "BinOp" THEN
            IF /\ node.right.n = "Num"
               /\ node.right.v.t = "complex"
               /\ node.left.n = "Num"
               /\ node.left.v.t \in {"int", "float"}
            THEN Ret(ComplexVal(node.left.v,
                                IF node.op = "+" THEN node.right.v.im
                                ELSE NegReal(node.right.v.im)))
            ELSE Raise("ValueError")
        ELSE Raise("ValueError")

ConvertElts(elts, acc) ==
    LET Converted(r) ==
            IF r.kind = "raise" THEN r
            ELSE ConvertElts(Tail(elts), Append(acc, r.val))
    IN  IF elts = <<>> THEN Ret(acc) ELSE Converted(Convert(Head(elts)))

ConvertPairs(pairs, acc) ==
    LET Converted(k, v) ==
            IF k.kind = "raise" THEN k
            ELSE IF v.kind = "raise" THEN v
            ELSE IF ~Hashable(k.val) THEN Raise("TypeError")
            ELSE ConvertPairs(Tail(pairs), PairsSet(acc, k.val, v.val))
    IN  IF pairs = <<>> THEN Ret(acc)
        ELSE Converted(Convert(Head(pairs)[1]), Convert(Head(pairs)[2]))

\* ast.literal_eval(s)
LiteralEval(s) ==
    LET Tree(ast) == IF ast.ok THEN Convert(ast.node) ELSE Raise("SyntaxError")
    IN  Tree(ParseEval(s))

----------------------------------------------------------------------------
(* The regular expressions and the strptime formats of _postprocess *)

\* re.match(intpattern, s) with intpattern ^"?\-?\d+"?$
MatchInt(s) ==
    LET Closed(i2, i3) ==
            i3 > i2 /\ (IF At(s, i3) = "\"" THEN i3 + 1 ELSE i3) = Len(s) + 1
        Signed(i2) == Closed(i2, DigitRun(s, i2))
        Opened(i1) == Signed(IF At(s, i1) = "-" THEN i1 + 1 ELSE i1)
    IN  Opened(IF At(s, 1) = "\"" THEN 2 ELSE 1)

\* re.match(floatpattern, s) with floatpattern ^"?\-?\d+\.\d+(E[+-]?\d\d+)?"?$
MatchFloat(s) ==
    LET Closed(i5) == (IF At(s, i5) = "\"" THEN i5 + 1 ELSE i5) = Len(s) + 1
        Power(i4, x0, x1) ==
            Closed(IF At(s, i4) = "E" /\ x1 >= x0 + 2 THEN x1 ELSE i4)
        Exponent(i4, x0) == Power(i4, x0, DigitRun(s, x0))
        Fraction(i3, i4) ==
            /\ At(s, i3) = "."
            /\ i4 > i3 + 1
            /\ Exponent(i4, IF At(s, i4 + 1) \in {"+", "-"} THEN i4 + 2 ELSE i4 + 1)
        Whole(i2, i3) == i3 > i2 /\ Fraction(i3, DigitRun(s, i3 + 1))
        Signed(i2) == Whole(i2, DigitRun(s, i2))
        Opened(i1) == Signed(IF At(s, i1) = "-" THEN i1 + 1 ELSE i1)
    IN  Opened(IF At(s, 1) = "\"" THEN 2 ELSE 1)

\* int(s): optional blanks, an optional sign, decimal digits, optional blanks
IntOf(s0) ==
    LET Whole(s, i2, i3) ==
            IF i3 > i2 /\ i3 = Len(s) + 1
            THEN Ret(IntVal((IF At(s, 1) = "-" THEN 0 - 1 ELSE 1)
                            * DigitsToInt(s, i2, i3, 10)))
            ELSE Raise("ValueError")
        Signed(s, i2) == Whole(s, i2, DigitRun(s, i2))
        Stripped(s) == Signed(s, IF At(s, 1) \in {"-", "+"} THEN 2 ELSE 1)
    IN  Stripped(Strip(s0))

\* float(s) for the decimal notations: [sign] digits [. digits] [E [sign] digits]
FloatOf(s0) ==
    LET Result(s, val) == Ret(IF At(s, 1) = "-" THEN NegReal(val) ELSE val)
        Powered(s, i2, i3, c, d, x) ==
            IF (i3 > i2 \/ d > c) /\ x.ok /\ x.i = Len(s) + 1
            THEN Result(s, MkFloat(s, i2, i3, c, d, x.e))
            ELSE Raise("ValueError")
        Fraction(s, i2, i3, c, d) == Powered(s, i2, i3, c, d, ExponentAt(s, d))
        Point(s, i2, i3, c) ==
            Fraction(s, i2, i3, c, IF At(s, i3) = "." THEN DigitRun(s, c) ELSE i3)
        Whole(s, i2, i3) == Point(s, i2, i3, IF At(s, i3) = "." THEN i3 + 1 ELSE i3)
        Signed(s, i2) == Whole(s, i2, DigitRun(s, i2))
        Stripped(s) == Signed(s, IF At(s, 1) \in {"-", "+"} THEN 2 ELSE 1)
    IN  Stripped(Strip(s0))

\* The two-digit value s[i..i+1] and the one-digit value s[i]
Two(s, i) == 10 * DigitVal(s[i]) + DigitVal(s[i + 1])
IsTwo(s, i) == IsDigit(At(s, i)) /\ IsDigit(At(s, i + 1))

\* What a strptime directive matches at s[i], as the alternatives of its regular
\* expression in their order: a sequence of [v |-> value, i |-> next index]
DirectiveCands(dir, s, i) ==
    LET two(lo, hi) == IF IsTwo(s, i) /\ Two(s, i) >= lo /\ Two(s, i) <= hi
                       THEN <<[v |-> Two(s, i), i |-> i + 2]>> ELSE <<>>
        one(lo) == IF IsDigit(At(s, i)) /\ DigitVal(s[i]) >= lo
                   THEN <<[v |-> DigitVal(s[i]), i |-> i + 1]>> ELSE <<>>
        digs(n) == IF DigitRun(s, i) >= i + n
                   THEN <<[v |-> DigitsToInt(s, i, i + n, 10) * Pow10(6 - n),
                           i |-> i + n]>> ELSE <<>>
    IN  IF dir = "%Y" THEN       \* \d\d\d\d
            IF DigitRun(s, i) >= i + 4
            THEN <<[v |-> DigitsToInt(s, i, i + 4, 10), i |-> i + 4]>> ELSE <<>>
        ELSE IF dir = "%m" THEN  \* 1[0-2]|0[1-9]|[1-9]
            two(10, 12) \o two(1, 9) \o one(1)
        ELSE IF dir = "%d" THEN  \* 3[0-1]|[1-2]\d|0[1-9]|[1-9]| [1-9]
            two(30, 31) \o two(10, 29) \o two(1, 9) \o one(1)
            \o (IF At(s, i) = " " /\ IsDigit(At(s, i + 1)) /\ At(s, i + 1) # "0"
                THEN <<[v |-> DigitVal(s[i + 1]), i |-> i + 2]>> ELSE <<>>)
        ELSE IF dir = "%H" THEN  \* 2[0-3]|[0-1]\d|\d
            two(20, 23) \o two(0, 19) \o one(0)
        ELSE IF dir = "%M" THEN  \* [0-5]\d|\d
            two(0, 59) \o one(0)
        ELSE IF dir = "%S" THEN  \* 6[0-1]|[0-5]\d|\d
            two(60, 61) \o two(0, 59) \o one(0)
        ELSE                     \* %f: [0-9]{1,6}, the value in microseconds
            digs(6) \o digs(5) \o digs(4) \o digs(3) \o digs(2) \o digs(1)

\* the lower-case letter of an upper-case letter of a format
Lower(c) == IF c = "T" THEN "t" ELSE IF c = "Z" THEN "z" ELSE c

\* The format's regular expression matched at s[i] (re.IGNORECASE), with
\* backtracking over the directives' alternatives: the directives' values, in
\* order, and the end of the match
RECURSIVE MatchFmt(_, _, _, _, _), MatchCands(_, _, _, _, _, _)
MatchFmt(s, i, fmt, k, acc) ==
    IF k > Len(fmt) THEN [ok |-> TRUE, vals |-> acc, i |-> i]
    ELSE IF Len(fmt[k]) = 1 THEN
        IF At(s, i) # "" /\ Lower(At(s, i)) = Lower(fmt[k][1])
        THEN MatchFmt(s, i + 1, fmt, k + 1, acc) ELSE Fail
    ELSE MatchCands(s, DirectiveCands(fmt[k][1], s, i), 1, fmt, k, acc)

MatchCands(s, cands, n, fmt, k, acc) ==
    LET Alternative(r) ==
            IF r.ok THEN r ELSE MatchCands(s, cands, n + 1, fmt, k, acc)
    IN  IF n > Len(cands) THEN Fail
        ELSE Alternative(MatchFmt(s, cands[n].i, fmt, k + 1, Append(acc, cands[n].v)))

Lit(c) == <<c>>
Dir(d) == <<d, "directive">>

datedtpattern == <<Dir("%Y"), Lit("-"), Dir("%m"), Lit("-"), Dir("%d")>>
datedttimepattern ==
    <<Dir("%Y"), Lit("-"), Dir("%m"), Lit("-"), Dir("%d"), Lit("T"),
      Dir("%H"), Lit(":"), Dir("%M"), Lit(":"), Dir("%S"), Lit("Z")>>
timedtpattern ==
    <<Dir("%H"), Lit(":"), Dir("%M"), Lit(":"), Dir("%S"), Lit("."), Dir("%f")>>

IsLeap(y) == y % 4 = 0 /\ (y % 100 # 0 \/ y % 400 = 0)
DaysInMonth(y, mo) ==
    IF mo = 2 THEN (IF IsLeap(y) THEN 29 ELSE 28)
    ELSE IF mo \in {4, 6, 9, 11} THEN 30 ELSE 31
\* datetime.date(y, mo, d) accepts the date
ValidDate(y, mo, d) == y >= 1 /\ d >= 1 /\ d <= DaysInMonth(y, mo)

\* datetime.datetime.strptime(s, fmt): ValueError when the format does not match,
\* when data remains, or when the fields form no datetime; the directives a
\* format lacks default to the year 1900, January 1st, midnight
Strptime(s, fmt) ==
    LET Fields(y, mo, d, h, mi, sec, us) ==
            IF ~ValidDate(y, mo, d) \/ sec > 59 THEN Raise("ValueError")
            ELSE Ret(DatetimeVal(y, mo, d, h, mi, sec, us))
        Found(isdate, v) ==
            Fields(IF isdate THEN v[1] ELSE 1900,
                   IF isdate THEN v[2] ELSE 1,
                   IF isdate THEN v[3] ELSE 1,
                   IF ~isdate THEN v[1] ELSE IF Len(v) = 6 THEN v[4] ELSE 0,
                   IF ~isdate THEN v[2] ELSE IF Len(v) = 6 THEN v[5] ELSE 0,
                   IF ~isdate THEN v[3] ELSE IF Len(v) = 6 THEN v[6] ELSE 0,
                   IF ~isdate THEN v[4] ELSE 0)
        Matched(r) ==
            IF ~r.ok \/ r.i # Len(s) + 1 THEN Raise("ValueError")
            ELSE Found(fmt[1] = Dir("%Y"), r.vals)
    IN  Matched(MatchFmt(s, 1, fmt, 1, <<>>))

\* re.match(timepattern, s).group(0) with timepattern
\* ^"?\d{2}:\d{2}:\d{2}(\.\d{6})?"? ; <<>> stands for no match
MatchTime(s) ==
    LET Closed(i3) == SubSeq(s, 1, (IF At(s, i3) = "\"" THEN i3 + 1 ELSE i3) - 1)
        Seconds(i2) ==
            Closed(IF At(s, i2) = "." /\ DigitRun(s, i2 + 1) >= i2 + 7
                   THEN i2 + 7 ELSE i2)
        Opened(i1) ==
            IF /\ IsTwo(s, i1) /\ At(s, i1 + 2) = ":"
               /\ IsTwo(s, i1 + 3) /\ At(s, i1 + 5) = ":"
               /\ IsTwo(s, i1 + 6)
            THEN Seconds(i1 + 8) ELSE <<>>
    IN  Opened(IF At(s, 1) = "\"" THEN 2 ELSE 1)

----------------------------------------------------------------------------
(* _postprocess *)

\* datetime.date() and datetime.time()
DateOf(dt) == DateVal(dt.y, dt.mo, dt.d)
TimeOf(dt) == TimeVal(dt.h, dt.mi, dt.sec, dt.us)

\* teststr = valuestr.replace("'", "").replace('"', "")
Teststr(valuestr) == Remove(Remove(valuestr, "'"), "\"")

\* The steps of _postprocess in their order.  Each yields what the step returns
\* or raises; [kind |-> "next"] when the step falls through to the next one.
Next0 == [kind |-> "next"]

\* return literal_eval(teststr.strip()), except ValueError / SyntaxError: pass
StepLiteral(valuestr) ==
    LET Caught(r) ==
            IF r.kind = "raise" /\ r.val \in {"ValueError", "SyntaxError"} THEN Next0
            ELSE r
    IN  Caught(LiteralEval(Strip(Teststr(valuestr))))

\* if re.match(intpattern, teststr): return int(teststr)
\* elif re.match(floatpattern, teststr): return float(teststr)
StepNumber(valuestr) ==
    LET Number(teststr) ==
            IF MatchInt(teststr) THEN IntOf(teststr)
            ELSE IF MatchFloat(teststr) THEN FloatOf(teststr)
            ELSE Next0
    IN  Number(Teststr(valuestr))

\* return strptime(teststr, datedtpattern).date(), except ValueError: pass
StepDate(valuestr) ==
    LET Caught(r) == IF r.kind = "raise" THEN Next0 ELSE Ret(DateOf(r.val))
    IN  Caught(Strptime(Teststr(valuestr), datedtpattern))

\* return strptime(teststr, datedttimepattern), except ValueError: pass
StepDatetime(valuestr) ==
    LET Caught(r) == IF r.kind = "raise" THEN Next0 ELSE r
    IN  Caught(Strptime(Teststr(valuestr), datedttimepattern))

\* mat = re.match(timepattern, teststr); if mat: return
\* strptime(mat.group(0), timedtpattern).time(), except ValueError: pass
StepTime(valuestr) ==
    LET Caught(r) == IF r.kind = "raise" THEN Next0 ELSE Ret(TimeOf(r.val))
        Matched(test) ==
            IF test = <<>> THEN Next0 ELSE Caught(Strptime(test, timedtpattern))
    IN  Matched(MatchTime(Teststr(valuestr)))

\* if valuestr.startswith('"') and valuestr.endswith('"'): return valuestr[1:-1]
StepDequote(valuestr) ==
    IF StartsWith(valuestr, <<"\"">>) /\ EndsWith(valuestr, <<"\"">>)
    THEN Ret(StrVal(SubSeq(valuestr, 2, Len(valuestr) - 1)))
    ELSE Next0

\* logging.info(...); return valuestr
StepRaw(valuestr) == Ret(StrVal(valuestr))

PostSteps == <<"literal", "number", "date", "datetime", "time", "dequote", "raw">>

PostStep(step, valuestr) ==
    IF step = "literal" THEN StepLiteral(valuestr)
    ELSE IF step = "number" THEN StepNumber(valuestr)
    ELSE IF step = "date" THEN StepDate(valuestr)
    ELSE IF step = "datetime" THEN StepDatetime(valuestr)
    ELSE IF step = "time" THEN StepTime(valuestr)
    ELSE IF step = "dequote" THEN StepDequote(valuestr)
    ELSE StepRaw(valuestr)

\* _postprocess from its n-th step on
RECURSIVE PostFrom(_, _)
PostFrom(n, valuestr) ==
    LET Stepped(r) == IF r.kind = "next" THEN PostFrom(n + 1, valuestr) ELSE r
    IN  Stepped(PostStep(PostSteps[n], valuestr))

Postprocess(valuestr) == PostFrom(1, valuestr)

----------------------------------------------------------------------------
(* OrderedDict operations.  The items of an OrderedDict are a sequence of    *)
(* [k |-> key, v |-> value] in insertion order.                             *)

Item(k, v) == [k |-> k, v |-> v]

\* the index of key k in the items, 0 when it is no key
OdFind(items, k) ==
    IF \E i \in 1..Len(items) : items[i].k = k
    THEN CHOOSE i \in 1..Len(items) : items[i].k = k
    ELSE 0

OdHas(items, k) == OdFind(items, k) # 0

\* d[k]
OdGet(items, k) == items[OdFind(items, k)].v

\* d[k] = v: a known key keeps its place, a new key goes to the end
OdSet(items, k, v) ==
    IF OdHas(items, k) THEN [items EXCEPT ![OdFind(items, k)] = Item(k, v)]
    ELSE Append(items, Item(k, v))

\* A reference into the tree is the sequence of keys that leads from the root
\* to the referenced OrderedDict.
RECURSIVE DictAt(_, _)
DictAt(root, path) ==
    IF path = <<>> THEN root
    ELSE DictAt(OdGet(root.items, Head(path)), Tail(path))

\* the tree with the OrderedDict at path holding the items given
RECURSIVE DictPut(_, _, _)
DictPut(root, path, items) ==
    IF path = <<>> THEN ODict(items)
    ELSE ODict(OdSet(root.items, Head(path),
                     DictPut(OdGet(root.items, Head(path)), Tail(path), items)))

\* _deep_convert_dict: every OrderedDict becomes a dict, down through the
\* values that have an items() method
RECURSIVE DeepConvertDict(_)
DeepConvertDict(layer) ==
    IF layer.t = "odict"
    THEN PlainDictVal({<<layer.items[i].k, DeepConvertDict(layer.items[i].v)>> :
                         i \in 1..Len(layer.items)})
    ELSE IF layer.t = "dict"
    THEN PlainDictVal({<<q[1], DeepConvertDict(q[2])>> : q \in layer.pairs})
    ELSE layer

----------------------------------------------------------------------------
(* _transstat *)

\* What _transstat leaves behind: it returns, or raises exception e, with
\* grouppath gp, dictpath dp and the tree md
TReturn(gp, dp, md) ==
    [kind |-> "return", val |-> "none", grouppath |-> gp, dictpath |-> dp,
     metadata |-> md]
TRaise(e, gp, dp, md) ==
    [kind |-> "raise", val |-> e, grouppath |-> gp, dictpath |-> dp, metadata |-> md]

Group(name) == [name |-> name, kind |-> "g"]
Object(name) == [name |-> name, kind |-> "o"]

\* A mutation of TransGroupStart: the composite of the new group is created
\* but not pushed onto dictpath
TransGroupStartFlat(gp, dp, md, line) ==
    LET currentgroup == Getgroupname(line)
        cur == Last(dp)
    IN  IF dp = <<>> THEN TRaise("IndexError", gp, dp, md)
        ELSE IF currentgroup \notin IGNOREGROUPS
        THEN TReturn(Append(gp, Group(currentgroup)), Append(dp, cur),
                     DictPut(md, cur, OdSet(DictAt(md, cur).items,
                                            StrVal(currentgroup), ODict(<<>>))))
        ELSE TReturn(Append(gp, Group(currentgroup)), dp, md)

\* status == 1: a group starts
TransGroupStart(gp, dp, md, line) ==
    LET currentgroup == Getgroupname(line)
        cur == Last(dp)
    IN  IF dp = <<>> THEN TRaise("IndexError", gp, dp, md)
        ELSE IF currentgroup \notin IGNOREGROUPS
        THEN TReturn(Append(gp, Group(currentgroup)),
                     Append(dp, Append(cur, StrVal(currentgroup))),
                     DictPut(md, cur, OdSet(DictAt(md, cur).items,
                                            StrVal(currentgroup), ODict(<<>>))))
        ELSE TReturn(Append(gp, Group(currentgroup)), dp, md)

\* status == 2: a key-value pair
TransAssign(gp, dp, md, line) ==
    LET Insert(cur, currentdict, currentparent, newkey, newval) ==
            IF currentparent.kind = "g" THEN
                IF currentparent.name \in IGNOREGROUPS THEN TReturn(gp, dp, md)
                ELSE IF newval.kind = "raise" THEN TRaise(newval.val, gp, dp, md)
                ELSE TReturn(gp, dp, DictPut(md, cur,
                                      OdSet(currentdict, StrVal(newkey), newval.val)))
            ELSE IF newkey # VALUE THEN TReturn(gp, dp, md)
            ELSE IF currentparent.name = ADDITIONALATTRIBUTENAME THEN
                IF newval.kind = "raise" THEN TRaise(newval.val, gp, dp, md)
                ELSE IF ~Hashable(newval.val) THEN TRaise("TypeError", gp, dp, md)
                ELSE TReturn(gp, dp, DictPut(md, cur,
                                      OdSet(currentdict, newval.val, NoneVal)))
            ELSE IF currentparent.name = PARAMETERVALUE THEN
                IF currentdict = <<>> THEN TRaise("KeyError", gp, dp, md)
                ELSE IF newval.kind = "raise"
                     THEN TRaise(newval.val, gp, dp,
                                 DictPut(md, cur, DelLast(currentdict)))
                ELSE TReturn(gp, dp, DictPut(md, cur,
                                      OdSet(DelLast(currentdict), Last(currentdict).k,
                                            newval.val)))
            ELSE
                IF newval.kind = "raise" THEN TRaise(newval.val, gp, dp, md)
                ELSE TReturn(gp, dp, DictPut(md, cur,
                                      OdSet(currentdict, StrVal(currentparent.name),
                                            newval.val)))
        Assigned(cur, item) ==
            IF Len(item) # 2 THEN TRaise("ValueError", gp, dp, md)
            ELSE Insert(cur, DictAt(md, cur).items, Last(gp), item[1],
                        Postprocess(item[2]))
    IN  IF dp = <<>> \/ gp = <<>> THEN TRaise("IndexError", gp, dp, md)
        ELSE Assigned(Last(dp), Getmetadataitem(line))

\* A mutation of TransGroupEnd: the name of the closing line is not compared
\* with the name on top of grouppath
TransGroupEndUnchecked(gp, dp, md, line) ==
    LET oldgroup == Getendgroupname(line)
    IN  IF gp = <<>> THEN TRaise("IndexError", gp, dp, md)
        ELSE IF oldgroup \notin IGNOREGROUPS THEN
            IF dp = <<>> THEN TRaise("IndexError", DelLast(gp), dp, md)
            ELSE TReturn(DelLast(gp), DelLast(dp), md)
        ELSE TReturn(DelLast(gp), dp, md)

\* status == 3: a group ends
TransGroupEnd(gp, dp, md, line) ==
    LET oldgroup == Getendgroupname(line)
    IN  IF gp = <<>> THEN TRaise("IndexError", gp, dp, md)
        ELSE IF oldgroup # Last(gp).name THEN TRaise("MTLParseError", gp, dp, md)
        ELSE IF oldgroup \notin IGNOREGROUPS THEN
            IF dp = <<>> THEN TRaise("IndexError", DelLast(gp), dp, md)
            ELSE TReturn(DelLast(gp), DelLast(dp), md)
        ELSE TReturn(DelLast(gp), dp, md)

\* "fmt" % args for a format with one %s: a tuple gives the arguments one by
\* one and must hold exactly one, anything else is the one argument
FormatsOne(args) == args.t = "tuple" => Len(args.elts) = 1

\* status == 4: the END line.  The message of the MTLParseError is formatted
\* with grouppath[-1], the tuple (name, kind), before the exception is raised
TransFinal(gp, dp, md, line) ==
    IF gp # <<>>
    THEN IF FormatsOne(TupleVal(<<StrVal(Last(gp).name), StrVal(<<Last(gp).kind>>)>>))
         THEN TRaise("MTLParseError", gp, dp, md)
         ELSE TRaise("TypeError", gp, dp, md)
    ELSE TReturn(gp, dp, md)

\* status == 5: an object starts
TransObjectStart(gp, dp, md, line) ==
    TReturn(Append(gp, Object(Getobjname(line))), dp, md)

\* status == 6: an object ends
TransObjectEnd(gp, dp, md, line) ==
    LET oldobj == Getendobjname(line)
    IN  IF gp = <<>> THEN TRaise("IndexError", gp, dp, md)
        ELSE IF oldobj # Last(gp).name THEN TRaise("MTLParseError", gp, dp, md)
        ELSE TReturn(DelLast(gp), dp, md)

Transstat(st, gp, dp, md, line) ==
    IF st = 0 THEN TRaise("MTLParseError", gp, dp, md)
    ELSE IF st = 1 THEN TransGroupStart(gp, dp, md, line)
    ELSE IF st = 2 THEN TransAssign(gp, dp, md, line)
    ELSE IF st = 3 THEN TransGroupEnd(gp, dp, md, line)
    ELSE IF st = 4 THEN TransFinal(gp, dp, md, line)
    ELSE IF st = 5 THEN TransObjectStart(gp, dp, md, line)
    ELSE IF st = 6 THEN TransObjectEnd(gp, dp, md, line)
    ELSE TReturn(gp, dp, md)

----------------------------------------------------------------------------
(* The inputs.  The names and values of the test files are shortened: L1 and  *)
(* PM stand for the groups L1_METADATA_FILE and PRODUCT_METADATA, ID for the  *)
(* key SPACECRAFT_ID, L8 and L7 for the values "LANDSAT_8" and "LANDSAT_7",   *)
(* AP for the object ANCILLARYINPUTPOINTER, and T for the attribute name      *)
(* "AveragedBlackBodyTemperature".                                            *)

L1 == <<"L","1">>
PM == <<"P","M">>
ID == <<"I","D">>
AP == <<"A","P">>

Quoted(s) == <<"\"">> \o s \o <<"\"">>

\* a raw line 'HEAD = TAIL' with the indentation given
RawLine(indent, head, tail) == indent \o head \o <<" ", "=", " ">> \o tail

GroupLine(name) == RawLine(<<>>, <<"G","R","O","U","P">>, name)
EndGroupLine(name) == RawLine(<<" ">>, <<"E","N","D","_","G","R","O","U","P">>, name)
ObjectLine(name) == RawLine(<<" ">>, <<"O","B","J","E","C","T">>, name)
EndObjectLine(name) == RawLine(<<>>, <<"E","N","D","_","O","B","J","E","C","T">>, name)
EndLine == <<"E","N","D">>
BlankLine == <<" ", " ">>

\* a value literal_eval raises TypeError for: a dict display with a list as key
UnhashableKey == <<"{","[","]",":","0","}">>

\* the plain (Landsat) dialect: groups and assignments
PlainLines ==
    { GroupLine(L1), EndGroupLine(L1), GroupLine(PM), EndGroupLine(PM),
      RawLine(<<" ">>, ID, Quoted(<<"L","8">>)), RawLine(<<>>, ID, Quoted(<<"L","7">>)),
      EndLine }

\* the plain dialect with the ignored group, blank lines and a value that
\* literal_eval does not survive
IgnoreLines ==
    { GroupLine(L1), EndGroupLine(L1), GroupLine(INFORMATIONCONTENT),
      EndGroupLine(INFORMATIONCONTENT), RawLine(<<" ">>, ID, Quoted(<<"L","8">>)),
      RawLine(<<>>, ID, UnhashableKey), EndLine, BlankLine }

\* name and value objects (MODIS): the folding of PARAMETERVALUE
FoldLines ==
    { GroupLine(L1), ObjectLine(ADDITIONALATTRIBUTENAME),
      EndObjectLine(ADDITIONALATTRIBUTENAME), ObjectLine(PARAMETERVALUE),
      RawLine(<<>>, VALUE, Quoted(<<"T">>)),
      RawLine(<<>>, VALUE, Quoted(<<" ","2",".","5">>)) }

\* a name object that no value object follows, and a value that literal_eval
\* makes None of
LeafLines ==
    { GroupLine(L1), EndGroupLine(L1), ObjectLine(ADDITIONALATTRIBUTENAME),
      EndObjectLine(ADDITIONALATTRIBUTENAME), RawLine(<<>>, VALUE, Quoted(<<"T">>)),
      RawLine(<<" ">>, ID, <<"N","o","n","e">>), EndLine }

\* objects and groups, closed by lines of either kind
ObjectLines ==
    { GroupLine(L1), EndGroupLine(L1), ObjectLine(AP), EndObjectLine(AP),
      EndGroupLine(AP), ObjectLine(PARAMETERVALUE), EndObjectLine(PARAMETERVALUE),
      RawLine(<<>>, VALUE, Quoted(<<"f">>)), EndLine }

\* the inputs of repeated calls
CallLines ==
    { GroupLine(L1), EndGroupLine(L1), RawLine(<<>>, ID, Quoted(<<"L","8">>)), EndLine }

\* lines whose marker has whitespace on one side only, and values that contain
\* the marker
GroupLeft(name) == <<"G","R","O","U","P">> \o <<" ", "=">> \o name
GroupRight(name) == <<"G","R","O","U","P">> \o <<"=", " ">> \o name
MarkerLines ==
    { GroupLine(L1), GroupLeft(L1), GroupRight(L1), EndGroupLine(L1),
      RawLine(<<" ">>, ID, Quoted(<<"L","8">>)),
      RawLine(<<" ">>, ID, Quoted(<<"a","=","b">>)),
      RawLine(<<>>, ID, Quoted(<<"a"," ","="," ","b">>)),
      BlankLine, EndLine }

RawLines ==
    PlainLines \cup IgnoreLines \cup FoldLines \cup LeafLines \cup ObjectLines \cup CallLines
        \cup MarkerLines

\* _sanitizeline of every line of the inputs
Sanitized == [raw \in RawLines |-> Sanitizeline(raw)]

\* the most lines one call reads from an input of each kind, and the most calls
MaxLines == 6
MaxIgnoreLines == 5
MaxFoldLines == 7
MaxObjectLines == 5
MaxLeafLines == 6
MaxListing == 3
MaxCallLines == 3
MaxCalls == 3
MaxMarkerLines == 4

----------------------------------------------------------------------------
(* parsemeta and _parsemetastream *)

NoResult == [t |-> "no result"]
NoCall == [t |-> "no call"]
Pending == [kind |-> "pending"]

\* the locals of _parsemetastream before its loop
Fresh ==
    /\ pc = "reading"
    /\ status = 0
    /\ metadata = ODict(<<>>)
    /\ grouppath = <<>>
    /\ dictpath = <<<<>>>>
    /\ exc = "none"
    /\ result = NoResult
    /\ hist = <<>>

\* no call of _postprocess from outside the parser is under way
NoInference == arg = <<>> /\ stage = 0 /\ outcome = Pending

\* the call reads a stream that is given line by line
AStream == [t |-> "stream"]
FromStream == metadataloc = AStream /\ metadatastr = AStream

Init == Fresh /\ memo = NoCall /\ ncalls = 1 /\ NoInference /\ FromStream

\* the lines read so far
Lines(h) == [i \in 1..Len(h) |-> h[i].line]

\* the call ends with exception e
Raised(e, st, gp, dp, md) ==
    /\ pc' = "raised"
    /\ exc' = e
    /\ status' = st
    /\ grouppath' = gp
    /\ dictpath' = dp
    /\ metadata' = md
    /\ UNCHANGED result

\* One iteration of the loop of _parsemetastream over the raw line
Iterate(raw) ==
    LET Moved(st, ts) ==
            IF ts.kind = "raise"
            THEN Raised(ts.val, st, ts.grouppath, ts.dictpath, ts.metadata)
            ELSE /\ status' = st
                 /\ grouppath' = ts.grouppath
                 /\ dictpath' = ts.dictpath
                 /\ metadata' = ts.metadata
                 /\ UNCHANGED <<pc, exc, result>>
        Checked(line, cs) ==
            IF cs.kind = "raise"
            THEN Raised(cs.val, status, grouppath, dictpath, metadata)
            ELSE Moved(cs.val, Transstat(cs.val, grouppath, dictpath, metadata, line))
        Sane(line) ==
            /\ pc = "reading"
            /\ IF line = <<>>
               THEN UNCHANGED <<pc, status, grouppath, dictpath, metadata, exc, result>>
               ELSE IF status = 4
               THEN \* the warning's message names metadatafn, which is not defined
                    Raised("NameError", status, grouppath, dictpath, metadata)
               ELSE Checked(line, Checkstatus(status, line))
            /\ hist' = Append(hist, [line |-> line, grouppath |-> grouppath'])
    IN  Sane(Sanitized[raw])

\* The stream is exhausted: _parsemetastream returns metadata and parsemeta
\* returns _deep_convert_dict(metadata)
Finish ==
    /\ pc = "reading"
    /\ pc' = "returned"
    /\ result' = DeepConvertDict(metadata)
    /\ UNCHANGED <<status, grouppath, dictpath, metadata, exc, hist>>

\* the stream yields one more line
Read(raw) ==
    /\ Iterate(raw)
    /\ UNCHANGED <<memo, ncalls, arg, stage, outcome, metadataloc, metadatastr>>

ReadLine == \E raw \in PlainLines : Len(hist) < MaxLines /\ Read(raw)

EndOfStream ==
    /\ Finish
    /\ UNCHANGED <<memo, ncalls, arg, stage, outcome, metadataloc, metadatastr>>

Next == ReadLine \/ EndOfStream

Spec == Init /\ [][Next]_vars

\* the plain dialect with the ignored group
ReadIgnoreLine == \E raw \in IgnoreLines : Len(hist) < MaxIgnoreLines /\ Read(raw)

NextIgnore == ReadIgnoreLine \/ EndOfStream

SpecIgnore == Init /\ [][NextIgnore]_vars

\* name and value objects
ReadFoldLine == \E raw \in FoldLines : Len(hist) < MaxFoldLines /\ Read(raw)

NextFold == ReadFoldLine \/ EndOfStream

SpecFold == Init /\ [][NextFold]_vars

\* name objects without value objects
ReadLeafLine == \E raw \in LeafLines : Len(hist) < MaxLeafLines /\ Read(raw)

NextLeaf == ReadLeafLine \/ EndOfStream

SpecLeaf == Init /\ [][NextLeaf]_vars

\* lines with one-sided markers and markers in values; arg holds the raw line
\* that was handed to _sanitizeline last
ReadMarkerLine ==
    \E raw \in MarkerLines :
        /\ Len(hist) < MaxMarkerLines
        /\ Iterate(raw)
        /\ arg' = raw
        /\ UNCHANGED <<memo, ncalls, stage, outcome, metadataloc, metadatastr>>

EndOfMarkerStream ==
    /\ Finish
    /\ UNCHANGED <<memo, ncalls, arg, stage, outcome, metadataloc, metadatastr>>

NextMarker == ReadMarkerLine \/ EndOfMarkerStream

SpecMarker == Init /\ [][NextMarker]_vars

\* objects and groups
ReadObjectLine == \E raw \in ObjectLines : Len(hist) < MaxObjectLines /\ Read(raw)

NextObject == ReadObjectLine \/ EndOfStream

SpecObject == Init /\ [][NextObject]_vars

\* repeated calls of parsemeta
ReadCallLine == \E raw \in CallLines : Len(hist) < MaxCallLines /\ Read(raw)

\* what a finished call was given and what came of it
ThisCall == [input |-> Lines(hist), pc |-> pc, exc |-> exc, result |-> result]

\* A mutation of NewCall: the root OrderedDict of the call before is used again
NewCallStale ==
    /\ pc \in {"returned", "raised"}
    /\ ncalls < MaxCalls
    /\ ncalls' = ncalls + 1
    /\ memo' \in {memo, ThisCall}
    /\ pc' = "reading"
    /\ status' = 0
    /\ grouppath' = <<>>
    /\ dictpath' = <<<<>>>>
    /\ exc' = "none"
    /\ result' = NoResult
    /\ hist' = <<>>
    /\ UNCHANGED <<metadata, arg, stage, outcome, metadataloc, metadatastr>>

\* parsemeta is called again, after the call before has returned or raised:
\* _parsemetastream sets up its locals anew.  The finished call is remembered or
\* not.
NewCall ==
    /\ pc \in {"returned", "raised"}
    /\ ncalls < MaxCalls
    /\ ncalls' = ncalls + 1
    /\ memo' \in {memo, ThisCall}
    /\ pc' = "reading"
    /\ status' = 0
    /\ metadata' = ODict(<<>>)
    /\ grouppath' = <<>>
    /\ dictpath' = <<<<>>>>
    /\ exc' = "none"
    /\ result' = NoResult
    /\ hist' = <<>>
    /\ UNCHANGED <<arg, stage, outcome, metadataloc, metadatastr>>

NextCalls == ReadCallLine \/ EndOfStream \/ NewCall

SpecCalls == Init /\ [][NextCalls]_vars

----------------------------------------------------------------------------
(* parsemeta on a directory or on a file.  A directory is the list of its     *)
(* entries in the order os.listdir yields them, a file the list of its lines. *)

METAPATTERN == <<"*","_","M","T","L","*">>

\* fnmatch of a name against a pattern '*text*': text occurs in the name
Fnmatch(name, pat) ==
    \E i \in 1..Len(name) :
        StartsWith(SubSeq(name, i, Len(name)), SubSeq(pat, 2, Len(pat) - 1))

\* glob.glob(os.path.join(dir, pat)): the entries that match, in the order of
\* the listing; a pattern that starts with '*' matches no hidden entry
Glob(listing, pat) ==
    LET Matches(name) == Head(name) # "." /\ Fnmatch(name, pat)
    IN  SelectSeq(listing, Matches)

SceneA == <<"a","_","M","T","L",".","t","x","t">>
SceneB == <<"b","_","M","T","L",".","T","X","T">>
SceneC == <<"c","_","M","T","L">>
Hidden == <<".","_","M","T","L">>
Notes  == <<"M","T","L",".","t","x","t">>
FileNames == {SceneA, SceneB, SceneC, Hidden, Notes}

\* the lines of the files: two scenes that parse to different trees, one whose
\* groups do not match, and two files that are no metadata files
Contents ==
    [name \in FileNames |->
        IF name = SceneA
        THEN <<GroupLine(L1), RawLine(<<" ">>, ID, Quoted(<<"L","8">>)), EndGroupLine(L1),
               EndLine>>
        ELSE IF name = SceneB
        THEN <<GroupLine(PM), EndGroupLine(PM), EndLine>>
        ELSE IF name = SceneC
        THEN <<GroupLine(L1), EndGroupLine(PM)>>
        ELSE <<EndLine>>]

Directory(listing) == [t |-> "dir", listing |-> listing]
File(name) == [t |-> "file", name |-> name]
Unbound == [t |-> "unbound"]

\* the directories of at most MaxListing entries
Listings ==
    UNION {{l \in [1..n -> FileNames] : \A i, j \in 1..n : i # j => l[i] # l[j]} :
             n \in 0..MaxListing}
Locations == {Directory(l) : l \in Listings} \cup {File(name) : name \in FileNames}

InitDir ==
    /\ pc = "called"
    /\ metadataloc \in Locations
    /\ metadatastr = Unbound
    /\ status = 0
    /\ metadata = ODict(<<>>)
    /\ grouppath = <<>>
    /\ dictpath = <<<<>>>>
    /\ exc = "none"
    /\ result = NoResult
    /\ hist = <<>>
    /\ memo = NoCall /\ ncalls = 1 /\ NoInference

\* parsemeta up to the open: the file named, or the first match of the pattern
\* in the directory; with more than one match the warning is formatted with
\* metadatafn, a name that nothing defines
Resolve ==
    LET Chosen(metalist) ==
            IF metalist = <<>>
            THEN Raised("MTLParseError", status, grouppath, dictpath, metadata)
                 /\ UNCHANGED metadatastr
            ELSE /\ metadatastr' = metalist[1]
                 /\ IF Len(metalist) > 1
                    THEN Raised("NameError", status, grouppath, dictpath, metadata)
                    ELSE /\ pc' = "reading"
                         /\ UNCHANGED <<status, grouppath, dictpath, metadata, exc, result>>
    IN  /\ pc = "called"
        /\ IF metadataloc.t = "dir"
           THEN Chosen(Glob(metadataloc.listing, METAPATTERN))
           ELSE /\ metadatastr' = metadataloc.name
                /\ pc' = "reading"
                /\ UNCHANGED <<status, grouppath, dictpath, metadata, exc, result>>
        /\ UNCHANGED <<hist, memo, ncalls, arg, stage, outcome, metadataloc>>

\* the loop of _parsemetastream over the open file
ReadFileLine ==
    /\ pc = "reading"
    /\ Len(hist) < Len(Contents[metadatastr])
    /\ Read(Contents[metadatastr][Len(hist) + 1])

EndOfFile ==
    /\ pc = "reading"
    /\ Len(hist) = Len(Contents[metadatastr])
    /\ EndOfStream

NextDir == Resolve \/ ReadFileLine \/ EndOfFile

SpecDir == InitDir /\ [][NextDir]_vars

----------------------------------------------------------------------------
(* _postprocess called on its own, step by step *)

LANDSAT_8 == <<"L","A","N","D","S","A","T","_","8">>
AcquisitionDate == <<"2","0","1","3","-","0","6","-","0","2">>
AcquisitionTime ==
    <<"2","0","1","3","-","0","6","-","0","2","T","1","5",":","0","0",":","0","1","Z">>
TimeOfDay == <<"1","5",":","0","0",":","0","1",".","1","2","3","4","5","6">>

\* times of day without a fraction and with a fraction of three digits
WholeSeconds == SubSeq(TimeOfDay, 1, 8)
Milliseconds == SubSeq(TimeOfDay, 1, 12)

ExampleValues ==
    { Quoted(LANDSAT_8), LANDSAT_8, <<"1","2","3">>, <<"0",".","9","9","9","6">>,
      <<"0","8","9">>, AcquisitionDate, AcquisitionTime, TimeOfDay, WholeSeconds,
      Milliseconds, Quoted(<<"N","o","n","e">>), UnhashableKey }

\* the longest of the short strings, and the characters they are made of
MaxValueLen == 3
ValueChars == {"\"", "1", ".", "a"}

ShortValues == UNION {[1..n -> ValueChars] : n \in 0..MaxValueLen}

InferValues == ExampleValues \cup ShortValues

\* no parsemeta call is under way
Idle ==
    /\ pc = "idle"
    /\ status = 0
    /\ metadata = ODict(<<>>)
    /\ grouppath = <<>>
    /\ dictpath = <<<<>>>>
    /\ exc = "none"
    /\ result = NoResult
    /\ hist = <<>>
    /\ memo = NoCall
    /\ ncalls = 0

InitInfer == Idle /\ arg \in InferValues /\ stage = 1 /\ outcome = Pending /\ FromStream

\* _postprocess tries its n-th step, r what the step comes to: the step returns
\* or raises, or falls through to the next one
Try(n, r) ==
    /\ stage = n
    /\ IF r.kind = "next"
       THEN stage' = n + 1 /\ UNCHANGED outcome
       ELSE outcome' = r /\ UNCHANGED stage
    /\ UNCHANGED <<pc, status, grouppath, dictpath, metadata, exc, result, hist, memo,
                   ncalls, arg, metadataloc, metadatastr>>

TryLiteral == outcome = Pending /\ Try(1, StepLiteral(arg))
TryNumber == outcome = Pending /\ Try(2, StepNumber(arg))
TryDate == outcome = Pending /\ Try(3, StepDate(arg))
TryDatetime == outcome = Pending /\ Try(4, StepDatetime(arg))
TryTime == outcome = Pending /\ Try(5, StepTime(arg))
TryDequote == outcome = Pending /\ Try(6, StepDequote(arg))
ReturnRaw == outcome = Pending /\ Try(7, StepRaw(arg))

NextInfer ==
    \/ TryLiteral \/ TryNumber \/ TryDate \/ TryDatetime \/ TryTime \/ TryDequote
    \/ ReturnRaw

SpecInfer == InitInfer /\ [][NextInfer]_vars

----------------------------------------------------------------------------
(* What an input is, read by the format's grammar alone: the groups and      *)
(* objects that are open after its first n lines.                            *)

BadNesting == [ok |-> FALSE, open |-> <<>>, ended |-> FALSE]

IsGroupStart(line) == StartsWith(line, GRPSTART)
IsGroupEnd(line) == StartsWith(line, GRPEND)
IsObjectStart(line) == StartsWith(line, OBJSTART)
IsObjectEnd(line) == StartsWith(line, OBJEND)
IsStructural(line) ==
    IsGroupStart(line) \/ IsGroupEnd(line) \/ IsObjectStart(line) \/ IsObjectEnd(line)
IsAssignLine(line) == ~IsStructural(line) /\ Contains(line, "=")
NameOf(line) == Last(Split(line, <<"=">>))
KeyOf(line) == Head(Split(line, <<"=">>))

RECURSIVE Nesting(_, _)
Nesting(lines, n) ==
    IF n = 0 THEN [ok |-> TRUE, open |-> <<>>, ended |-> FALSE]
    ELSE LET before == Nesting(lines, n - 1)
             line == lines[n]
             top == Last(before.open)
         IN  IF ~before.ok THEN BadNesting
             ELSE IF line = <<>> THEN before
             ELSE IF before.ended THEN BadNesting
             ELSE IF IsGroupStart(line)
             THEN [before EXCEPT !.open = Append(@, Group(NameOf(line)))]
             ELSE IF IsObjectStart(line)
             THEN IF before.open = <<>> THEN BadNesting
                  ELSE [before EXCEPT !.open = Append(@, Object(NameOf(line)))]
             ELSE IF IsGroupEnd(line)
             THEN IF before.open # <<>> /\ top = Group(NameOf(line))
                  THEN [before EXCEPT !.open = DelLast(@)] ELSE BadNesting
             ELSE IF IsObjectEnd(line)
             THEN IF before.open # <<>> /\ top = Object(NameOf(line))
                  THEN [before EXCEPT !.open = DelLast(@)] ELSE BadNesting
             ELSE IF IsAssignLine(line)
             THEN IF before.open = <<>> THEN BadNesting ELSE before
             ELSE IF line = FINAL
             THEN IF before.open = <<>> THEN [before EXCEPT !.ended = TRUE]
                  ELSE BadNesting
             ELSE BadNesting

\* the lines are the start of a well-formed input
WellNested(lines) == Nesting(lines, Len(lines)).ok

\* the lines are a well-formed input: well nested, up to the END line
WellFormed(lines) == WellNested(lines) /\ Nesting(lines, Len(lines)).ended

\* no object and no ignored group
PlainDialect(lines) ==
    \A i \in 1..Len(lines) :
        /\ ~IsObjectStart(lines[i]) /\ ~IsObjectEnd(lines[i])
        /\ IsGroupStart(lines[i]) => NameOf(lines[i]) \notin IGNOREGROUPS

\* the names of the groups open when line i is read, outermost first
RECURSIVE GroupNames(_)
GroupNames(open) ==
    IF open = <<>> THEN <<>>
    ELSE IF Head(open).kind = "g" /\ Head(open).name \notin IGNOREGROUPS
    THEN <<StrVal(Head(open).name)>> \o GroupNames(Tail(open))
    ELSE GroupNames(Tail(open))

Enclosing(lines, i) == GroupNames(Nesting(lines, i - 1).open)

\* d[k] of a dict, and whether k is a key of it
PdHas(d, k) == d.t = "dict" /\ \E q \in d.pairs : q[1] = k
PdGet(d, k) == (CHOOSE q \in d.pairs : q[1] = k)[2]

\* tree[path[1]][path[2]]...[key] == v in a tree of dicts
RECURSIVE TreeMaps(_, _, _, _)
TreeMaps(tree, path, key, v) ==
    IF path = <<>> THEN PdHas(tree, key) /\ PdGet(tree, key) = v
    ELSE PdHas(tree, Head(path)) /\ TreeMaps(PdGet(tree, Head(path)), Tail(path), key, v)

\* what _postprocess returns for the raw value of an assignment line
Inferred(line) == Postprocess(Split(line, <<"=">>)[2])

\* every assignment of the input is in the tree, under its groups
AssignmentsInTree(lines, tree) ==
    \A i \in 1..Len(lines) :
        IsAssignLine(lines[i]) =>
            /\ Inferred(lines[i]).kind = "return"
            /\ TreeMaps(tree, Enclosing(lines, i), StrVal(KeyOf(lines[i])),
                        Inferred(lines[i]).val)

\* the name a line writes into the composite of its enclosing groups: the name
\* of the group it opens or the key it assigns
Writes(line) == IsGroupStart(line) \/ IsAssignLine(line)
Target(lines, i) ==
    <<Enclosing(lines, i),
      IF IsGroupStart(lines[i]) THEN NameOf(lines[i]) ELSE KeyOf(lines[i])>>

\* no name is written twice under the same chain of groups
NoOverwrite(lines) ==
    \A i, j \in 1..Len(lines) :
        (i < j /\ Writes(lines[i]) /\ Writes(lines[j])) =>
            Target(lines, i) # Target(lines, j)

----------------------------------------------------------------------------
(* C1 *)

----------------------------------------------------------------------------
(* C2 *)

\* root[path[1]][path[2]]...[key] == v in the tree of OrderedDicts
RECURSIVE OdMaps(_, _, _, _)
OdMaps(root, path, key, v) ==
    IF root.t # "odict" THEN FALSE
    ELSE IF path = <<>> THEN OdHas(root.items, key) /\ OdGet(root.items, key) = v
    ELSE OdHas(root.items, Head(path))
         /\ OdMaps(OdGet(root.items, Head(path)), Tail(path), key, v)

\* line i of the call was a VALUE assignment read inside an object of this name
IsValueOf(i, objname) ==
    /\ IsAssignLine(hist[i].line) /\ KeyOf(hist[i].line) = VALUE
    /\ hist[i].grouppath # <<>> /\ Last(hist[i].grouppath) = Object(objname)

\* a line that inserts no key and leaves the enclosing composite the same: a
\* blank line, the start or end of an object or of an ignored group
InsertsNothing(line) ==
    \/ line = <<>>
    \/ IsObjectStart(line) \/ IsObjectEnd(line)
    \/ (IsGroupStart(line) \/ IsGroupEnd(line)) /\ NameOf(line) \in IGNOREGROUPS

\* C2: when the line just read is the VALUE=v of a PARAMETERVALUE object, an
\* earlier line was the VALUE=k of an ADDITIONALATTRIBUTENAME object and no line
\* in between inserted a key, the enclosing composite maps infer(k) to infer(v),
\* whatever it held before.
C2_FoldPairsNameWithValue ==
    \A i \in 1..(Len(hist) - 1) :
        (/\ IsValueOf(Len(hist), PARAMETERVALUE)
         /\ IsValueOf(i, ADDITIONALATTRIBUTENAME)
         /\ \A m \in (i + 1)..(Len(hist) - 1) : InsertsNothing(hist[m].line)) =>
            OdMaps(metadata, GroupNames(grouppath), Inferred(hist[i].line).val,
                   Inferred(hist[Len(hist)].line).val)

\* the pairing of the test file: 'T' -> 2.5 after the PARAMETERVALUE assignment
C2_Witness ==
    /\ Len(hist) >= 2 /\ pc = "reading"
    /\ IsValueOf(Len(hist), PARAMETERVALUE)
    /\ \E i \in 1..(Len(hist) - 1) : IsValueOf(i, ADDITIONALATTRIBUTENAME)
    /\ OdMaps(metadata, <<StrVal(L1)>>, StrVal(<<"T">>), FloatVal(25, 0 - 1))

----------------------------------------------------------------------------
(* C3 *)

\* the tree holds no composite under this name, at any level
RECURSIVE NoCompositeFor(_, _)
NoCompositeFor(root, name) ==
    \A i \in 1..Len(root.items) :
        root.items[i].v.t = "odict" =>
            /\ root.items[i].k # StrVal(name)
            /\ NoCompositeFor(root.items[i].v, name)

\* the line just read is an assignment directly inside the group INFORMATIONCONTENT
AssignedInIgnoredGroup ==
    /\ hist # <<>> /\ IsAssignLine(Last(hist).line)
    /\ Last(hist).grouppath # <<>>
    /\ Last(Last(hist).grouppath) = Group(INFORMATIONCONTENT)

----------------------------------------------------------------------------
(* C4 *)

\* C4: while the lines read are the start of a well-formed input (groups closed
\* by END_GROUP and objects by END_OBJECT of the same name, properly nested
\* inside an outermost group, nothing after END), parsemeta has raised no error,
\* and grouppath is empty once the END line has been processed.
C4_WellFormedParses ==
    WellNested(Lines(hist)) =>
        /\ pc # "raised"
        /\ status = 4 => grouppath = <<>>

----------------------------------------------------------------------------
(* C5 *)

\* grouppath before the line just read (a line that is skipped or that raises
\* leaves grouppath as it was)
GrouppathBefore == IF Len(hist) >= 2 THEN hist[Len(hist) - 1].grouppath ELSE <<>>

\* the line just read is an END_GROUP line, read while grouppath was not empty,
\* whose name is not the name on top of grouppath
MismatchedGroupEnd ==
    /\ hist # <<>> /\ IsGroupEnd(Last(hist).line)
    /\ GrouppathBefore # <<>>
    /\ Last(GrouppathBefore).name # NameOf(Last(hist).line)

\* C5: an END_GROUP line read while grouppath is not empty, with a name other
\* than the name on top of grouppath, ends the parse with MTLParseError and no
\* tree is returned, whatever the status it is read in.
C5_MismatchedGroupEndRaises ==
    MismatchedGroupEnd =>
        pc = "raised" /\ exc = "MTLParseError" /\ result = NoResult

\* END_GROUP = L1 was read inside the open object AP of group L1
C5_Witness ==
    /\ MismatchedGroupEnd
    /\ Last(GrouppathBefore) = Object(AP)
    /\ NameOf(Last(hist).line) = L1
    /\ pc = "raised" /\ exc = "MTLParseError"

----------------------------------------------------------------------------
(* C6 *)

\* the line just read is a VALUE assignment read inside an object with a name
\* other than ADDITIONALATTRIBUTENAME and PARAMETERVALUE
GenericObjectValue ==
    /\ hist # <<>> /\ IsAssignLine(Last(hist).line) /\ KeyOf(Last(hist).line) = VALUE
    /\ Last(hist).grouppath # <<>>
    /\ Last(Last(hist).grouppath).kind = "o"
    /\ Last(Last(hist).grouppath).name \notin {ADDITIONALATTRIBUTENAME, PARAMETERVALUE}

\* C6: after the VALUE assignment of such an object, the composite of the
\* innermost open group that is not ignored maps the object's name to the
\* inferred value.
C6_GenericObjectFolded ==
    GenericObjectValue =>
        OdMaps(metadata, GroupNames(grouppath), StrVal(Last(grouppath).name),
               Inferred(Last(hist).line).val)

----------------------------------------------------------------------------
(* C7 *)

\* C7: a call starts from fresh locals (status 0, empty grouppath, dictpath
\* holding the new empty root alone), and a call that is through with the input
\* an earlier call had has the outcome of that call: the same tree, or the same
\* exception, whatever calls were made in between.
C7_CallsAreIndependent ==
    /\ (pc = "reading" /\ hist = <<>>) =>
          /\ status = 0 /\ metadata = ODict(<<>>)
          /\ grouppath = <<>> /\ dictpath = <<<<>>>>
    /\ (pc # "reading" /\ memo # NoCall /\ memo.input = Lines(hist)) =>
          memo = ThisCall

\* the third call has returned the tree {'L1': {}} for a well-formed input that
\* an earlier call returned the same tree for
C7_Witness ==
    /\ ncalls = 3 /\ pc = "returned" /\ memo # NoCall
    /\ memo.input = Lines(hist) /\ WellFormed(Lines(hist))
    /\ result = PlainDictVal({<<StrVal(L1), PlainDictVal({})>>})
    /\ memo.result = result

----------------------------------------------------------------------------
(* C8 *)

\* C8: _postprocess raises no exception, whatever the string, and what its last
\* step returns is the raw string unchanged.
C8_InferenceIsTotal ==
    /\ outcome.kind # "raise"
    /\ (stage = Len(PostSteps) /\ outcome # Pending) => outcome = Ret(StrVal(arg))

----------------------------------------------------------------------------
(* C9 *)

AllDigits(s) == s # <<>> /\ \A i \in 1..Len(s) : IsDigit(s[i])
NoDigit(s) == \A i \in 1..Len(s) : ~IsDigit(s[i])

\* "..." with no quote inside
DoubleQuoted(s) ==
    /\ Len(s) >= 2 /\ Head(s) = "\"" /\ s[Len(s)] = "\""
    /\ \A i \in 2..(Len(s) - 1) : s[i] \notin {"\"", "'"}
Inner(s) == SubSeq(s, 2, Len(s) - 1)

\* digits '.' digits
DecimalString(s) ==
    \E i \in 2..(Len(s) - 1) :
        s[i] = "." /\ AllDigits(SubSeq(s, 1, i - 1)) /\ AllDigits(SubSeq(s, i + 1, Len(s)))

\* C9: what _postprocess returns is what the first of its steps that applies
\* returns (literal, number, date, datetime, time, dequoted, raw); a double-quoted
\* string without digits comes back dequoted, a digit string as an integer, a
\* decimal string as a float, and the five examples come back as stated.
C9_MostSpecificType ==
    outcome.kind = "return" =>
        /\ outcome = PostStep(PostSteps[stage], arg)
        /\ \A n \in 1..(stage - 1) : PostStep(PostSteps[n], arg).kind = "next"
        /\ (DoubleQuoted(arg) /\ NoDigit(Inner(arg))) => outcome.val = StrVal(Inner(arg))
        /\ AllDigits(arg) => outcome.val.t = "int"
        /\ DecimalString(arg) => outcome.val.t = "float"
        /\ arg = Quoted(LANDSAT_8) => outcome.val = StrVal(LANDSAT_8)
        /\ arg = <<"1","2","3">> => outcome.val = IntVal(123)
        /\ arg = <<"0",".","9","9","9","6">> => outcome.val = FloatVal(9996, 0 - 4)
        /\ arg = AcquisitionDate => outcome.val = DateVal(2013, 6, 2)
        /\ arg = AcquisitionTime => outcome.val = DatetimeVal(2013, 6, 2, 15, 0, 1, 0)

----------------------------------------------------------------------------
(* C10 *)

\* C10: a line read after the END line does not fail the parse: the call goes
\* on reading, or returns, with the tree that was complete when END was read.
C10_TrailingContentDiscarded ==
    [][(pc = "reading" /\ status = 4) =>
           /\ pc' \in {"reading", "returned"}
           /\ exc' = "none"
           /\ metadata' = metadata
           /\ pc' = "returned" => result' = DeepConvertDict(metadata)]_vars

----------------------------------------------------------------------------
(* C11 *)

\* the line just read is the END line, read while a group or an object was open
EndWhileOpen ==
    /\ hist # <<>> /\ Isfinal(Last(hist).line)
    /\ GrouppathBefore # <<>>

\* C11: the END line read while grouppath is not empty ends the parse with
\* MTLParseError, whatever the status it is read in.
C11_UnclosedAtEndRaises ==
    EndWhileOpen => pc = "raised" /\ exc = "MTLParseError"

----------------------------------------------------------------------------
(* C12 *)

\* the statuses other than 4 (END)
NonTerminal == {0, 1, 2, 3, 5, 6}

\* this step reads a non-empty line that the if/elif chain of the current
\* status has no branch for
ReadsUnexpectedLine ==
    /\ pc = "reading" /\ status \in NonTerminal
    /\ Len(hist') = Len(hist) + 1
    /\ Last(hist').line # <<>>
    /\ Newstatus(status, Last(hist').line) = 0

\* C12: in every status other than 4, reading a line that has no transition
\* from the status ends the parse with MTLParseError (whose message carries the
\* line and the name STATUSCODE gives the status).
C12_UnexpectedLineRaisesParseError ==
    [][ReadsUnexpectedLine => pc' = "raised" /\ exc' = "MTLParseError"]_vars

----------------------------------------------------------------------------
(* C13 *)

\* C13: a tree is returned only when no group or object is open at the end of
\* the input: a call that has returned has an empty grouppath.
C13_NoPartialTree ==
    pc = "returned" => grouppath = <<>>

----------------------------------------------------------------------------
(* C14 *)

\* the values of a tree that are not dicts
RECURSIVE LeavesOf(_)
LeavesOf(v) ==
    IF v.t = "dict" THEN UNION {LeavesOf(p[2]) : p \in v.pairs} ELSE {v}

ScalarLeafTypes == {"str", "int", "float", "date", "datetime", "time"}

\* C14: every leaf of a returned tree is a string, an integer, a float, a date,
\* a datetime or a time; None, which is what the key made for an
\* ADDITIONALATTRIBUTENAME object maps to, is not a leaf of a returned tree.
\* Stated for the inputs that have closed every group and object they opened
\* (grouppath is empty at the return), the trees C13 takes to be returned.
C14_LeavesAreScalars ==
    (pc = "returned" /\ grouppath = <<>>) =>
        \A v \in LeavesOf(result) : v.t \in ScalarLeafTypes

----------------------------------------------------------------------------
(* C15 *)

KeysOf(d) == {q[1] : q \in d.pairs}

\* the orders in which iterating a dict can yield its keys: a dict keeps no
\* record of the order of insertion, the order is the one of the hash table
IterationOrders(d) ==
    {f \in [1..Cardinality(KeysOf(d)) -> KeysOf(d)] :
        \A i, j \in DOMAIN f : i # j => f[i] # f[j]}

\* the keys of an OrderedDict in the order of their insertion
InsertionOrder(od) == [i \in 1..Len(od.items) |-> od.items[i].k]

\* iterating the dict made of an OrderedDict yields the keys in the order of
\* insertion, at every level
RECURSIVE OrderPreserved(_, _)
OrderPreserved(od, d) ==
    /\ IterationOrders(d) = {InsertionOrder(od)}
    /\ \A i \in 1..Len(od.items) :
           od.items[i].v.t = "odict" => OrderPreserved(od.items[i].v, PdGet(d, od.items[i].k))

\* C15: at every composite of a returned tree, iterating the keys yields them
\* in the order in which the parse inserted them.  Stated, as C14, for the
\* inputs that have closed every group and object they opened.
C15_InsertionOrderPreserved ==
    (pc = "returned" /\ grouppath = <<>>) => OrderPreserved(metadata, result)

----------------------------------------------------------------------------
(* C16 *)

\* the files of the directory that match the pattern
Metalist == Glob(metadataloc.listing, METAPATTERN)

\* the lines of a file as the loop sees them
SanitizedLines(name) == [i \in 1..Len(Contents[name]) |-> Sanitized[Contents[name][i]]]

IsPrefix(s, w) == Len(s) <= Len(w) /\ SubSeq(w, 1, Len(s)) = s

\* C16: given a directory, parsemeta fails with MTLParseError, having read
\* nothing, when no file matches the pattern; otherwise it opens the first
\* match, also when several files match, reads the lines of that file and of no
\* other, fails only where the parse of that file fails, and returns the tree
\* of that file.
C16_DirectorySource ==
    (metadataloc.t = "dir" /\ pc # "called") =>
        IF Metalist = <<>>
        THEN pc = "raised" /\ exc = "MTLParseError" /\ hist = <<>>
        ELSE /\ metadatastr = Metalist[1]
             /\ IsPrefix(Lines(hist), SanitizedLines(Metalist[1]))
             /\ pc = "raised" => hist # <<>>
             /\ pc = "returned" => Len(hist) = Len(Contents[Metalist[1]])
             /\ (pc = "returned" /\ Metalist[1] = SceneA) =>
                    result = PlainDictVal({<<StrVal(L1),
                                 PlainDictVal({<<StrVal(ID), StrVal(<<"L","8">>)>>})>>})

----------------------------------------------------------------------------
(* C17 *)

\* the string starts with HH:MM:SS
HasTimeForm(s) ==
    /\ IsTwo(s, 1) /\ At(s, 3) = ":"
    /\ IsTwo(s, 4) /\ At(s, 6) = ":"
    /\ IsTwo(s, 7)

\* the number of digits that follow a '.' after HH:MM:SS (0 without a '.')
FractionDigits(s) == IF At(s, 9) = "." THEN DigitRun(s, 10) - 10 ELSE 0

\* none of the steps before the time step applies to the string
NoEarlierStep(s) == \A n \in 1..4 : PostStep(PostSteps[n], s).kind = "next"

\* C17: a value that starts with HH:MM:SS, without a fraction or with a fraction
\* of up to 6 digits, and that no earlier step applies to, is returned as a time.
C17_TimeOfDayInferred ==
    (/\ outcome # Pending
     /\ HasTimeForm(arg) /\ FractionDigits(arg) <= 6
     /\ NoEarlierStep(arg))
        => outcome.kind = "return" /\ outcome.val.t = "time"

----------------------------------------------------------------------------
(* C18 *)

\* the kind of a sanitized line: the START and END prefixes first, then END,
\* then the assignment marker
Kind(line) ==
    IF IsGroupStart(line) THEN "GROUP_START"
    ELSE IF IsGroupEnd(line) THEN "GROUP_END"
    ELSE IF IsObjectStart(line) THEN "OBJECT_START"
    ELSE IF IsObjectEnd(line) THEN "OBJECT_END"
    ELSE IF Isfinal(line) THEN "FINAL"
    ELSE IF Contains(line, "=") THEN "ASSIGNMENT"
    ELSE "OTHER"

\* the target status of each kind of line, where the table lists the kind
TargetStatus(kind) ==
    IF kind = "GROUP_START" THEN 1
    ELSE IF kind = "ASSIGNMENT" THEN 2
    ELSE IF kind = "GROUP_END" THEN 3
    ELSE IF kind = "FINAL" THEN 4
    ELSE IF kind = "OBJECT_START" THEN 5
    ELSE 6

\* the kinds the transition table lists for a status
ListedKinds(st) ==
    IF st = 0 THEN {"GROUP_START", "FINAL"}
    ELSE IF st = 1 THEN {"GROUP_START", "GROUP_END", "OBJECT_START", "ASSIGNMENT"}
    ELSE IF st = 3
    THEN {"GROUP_START", "GROUP_END", "FINAL", "OBJECT_START", "OBJECT_END", "ASSIGNMENT"}
    ELSE IF st \in {2, 5, 6}
    THEN {"GROUP_START", "GROUP_END", "OBJECT_START", "OBJECT_END", "ASSIGNMENT"}
    ELSE {}

\* this step reads a non-empty line of the kind given in the status given
ReadsIn(st, kind) ==
    /\ pc = "reading" /\ status = st
    /\ Len(hist') = Len(hist) + 1
    /\ Last(hist').line # <<>>
    /\ Kind(Last(hist').line) = kind

----------------------------------------------------------------------------
(* C19 *)

Kinds ==
    {"GROUP_START", "GROUP_END", "OBJECT_START", "OBJECT_END", "FINAL", "ASSIGNMENT",
     "OTHER"}
StructuralKinds == {"GROUP_START", "GROUP_END", "OBJECT_START", "OBJECT_END"}

\* the keys of an OrderedDict and of the OrderedDicts in it
RECURSIVE OdKeys(_)
OdKeys(od) ==
    UNION {{od.items[i].k} \cup (IF od.items[i].v.t = "odict" THEN OdKeys(od.items[i].v)
                                 ELSE {}) : i \in 1..Len(od.items)}

\* C19: in every status other than 4, reading a line of a kind that the
\* transition table does not list for the status ends the parse (with an
\* exception, of whatever type: the type is the subject of C12), and reading a
\* GROUP, END_GROUP, OBJECT or END_OBJECT line never inserts the text before
\* its '=' as a key, whatever the status: only a GROUP line changes the tree.
C19_UnlistedIsError ==
    [][\A st \in NonTerminal : \A kind \in Kinds :
          ReadsIn(st, kind) =>
              /\ kind \notin ListedKinds(st) => pc' = "raised"
              /\ kind \in StructuralKinds =>
                     /\ StrVal(KeyOf(Last(hist').line)) \notin
                            OdKeys(metadata') \ OdKeys(metadata)
                     /\ kind # "GROUP_START" => metadata' = metadata]_vars

----------------------------------------------------------------------------
(* C20 *)

\* the entries of a grouppath that have a level of dictpath: the groups whose
\* name is not ignored
Levels(gp) == {i \in 1..Len(gp) : gp[i].kind = "g" /\ gp[i].name \notin IGNOREGROUPS}

\* C20: after every line read without an exception, dictpath has one entry for
\* the root and one for every group of grouppath whose name is not ignored;
\* objects and ignored groups have none.
C20_DictpathLevels ==
    pc \in {"reading", "returned"} => Len(dictpath) = 1 + Cardinality(Levels(grouppath))

----------------------------------------------------------------------------
(* C21 *)

\* this step reads a closing line that carries the name on top of grouppath
\* and is of the other kind: END_GROUP for an object, END_OBJECT for a group
ClosesOtherKind ==
    /\ pc = "reading" /\ status \in NonTerminal
    /\ Len(hist') = Len(hist) + 1
    /\ grouppath # <<>>
    /\ \/ Kind(Last(hist').line) = "GROUP_END" /\ Last(grouppath).kind = "o"
       \/ Kind(Last(hist').line) = "OBJECT_END" /\ Last(grouppath).kind = "g"
    /\ NameOf(Last(hist').line) = Last(grouppath).name

\* C21: a closing line of the other kind than what is on top of grouppath,
\* with the same name, ends the parse with MTLParseError and pops neither
\* grouppath nor dictpath.
C21_ClosedByOwnKindOnly ==
    [][ClosesOtherKind =>
           /\ pc' = "raised" /\ exc' = "MTLParseError"
           /\ grouppath' = grouppath /\ dictpath' = dictpath]_vars

----------------------------------------------------------------------------
(* C22 *)

\* the line just read is an END_GROUP or END_OBJECT line, read while grouppath
\* was empty and before any END line (what follows the END line is C10's)
ClosesNothing ==
    /\ hist # <<>> /\ status # 4
    /\ IsGroupEnd(Last(hist).line) \/ IsObjectEnd(Last(hist).line)
    /\ GrouppathBefore = <<>>

\* C22: an END_GROUP or END_OBJECT line read while nothing is open ends the
\* parse with MTLParseError.
C22_ClosingNothingRaises ==
    ClosesNothing => pc = "raised" /\ exc = "MTLParseError"

----------------------------------------------------------------------------
(* C23 *)

\* C23: whenever status is 2 (an assignment line was accepted), grouppath is
\* not empty: the assignment has a parent on top of grouppath.
C23_AssignmentHasParent ==
    status = 2 => grouppath # <<>>

----------------------------------------------------------------------------
(* C24 *)

\* this step reads a non-empty line after the END line
ReadsAfterEnd ==
    /\ pc = "reading" /\ status = 4
    /\ Len(hist') = Len(hist) + 1
    /\ Last(hist').line # <<>>

\* C24: once status is 4, it stays 4 for every further non-empty line: the
\* variable keeps the value, and 4 is what _checkstatus returns for the line.
C24_EndIsAbsorbing ==
    [][ReadsAfterEnd =>
           /\ status' = 4
           /\ Checkstatus(status, Last(hist').line) = Ret(4)]_vars

----------------------------------------------------------------------------
(* C25.  The state machine of landsatutils, which reads the raw lines: its    *)
(* markers hold the blanks around '=', its grouppath holds names only, and a  *)
(* group always has a level of dictpath.                                      *)

LandsatGRPSTART == <<"G","R","O","U","P"," ","="," ">>
LandsatGRPEND == <<"E","N","D","_","G","R","O","U","P"," ","="," ">>
LandsatASSIGNCHAR == <<" ","="," ">>

\* ASSIGNCHAR in line
LandsatIsassignment(line) ==
    \E i \in 1..Len(line) : StartsWith(SubSeq(line, i, Len(line)), LandsatASSIGNCHAR)

\* A mutation of LandsatNewstatus: an assignment is accepted after END_GROUP
LandsatNewstatusAssignsAfterEnd(st, line) ==
    IF st = 0 THEN
        IF Islinetype(line, LandsatGRPSTART) THEN 1
        ELSE IF Isfinal(line) THEN 4
        ELSE 0
    ELSE IF st = 1 THEN
        IF Islinetype(line, LandsatGRPSTART) THEN 1
        ELSE IF Islinetype(line, LandsatGRPEND) THEN 3
        ELSE IF LandsatIsassignment(line) THEN 2
        ELSE 0
    ELSE IF st = 2 THEN
        IF Islinetype(line, LandsatGRPEND) THEN 3
        ELSE IF LandsatIsassignment(line) THEN 2
        ELSE 0
    ELSE IF st = 3 THEN
        IF Islinetype(line, LandsatGRPSTART) THEN 1
        ELSE IF Islinetype(line, LandsatGRPEND) THEN 3
        ELSE IF Isfinal(line) THEN 4
        ELSE IF LandsatIsassignment(line) THEN 2
        ELSE 0
    ELSE 0

\* newstatus as the if/elif chain of landsatutils._checkstatus computes it
LandsatNewstatus(st, line) ==
    IF st = 0 THEN
        IF Islinetype(line, LandsatGRPSTART) THEN 1
        ELSE IF Isfinal(line) THEN 4
        ELSE 0
    ELSE IF st = 1 THEN
        IF Islinetype(line, LandsatGRPSTART) THEN 1
        ELSE IF Islinetype(line, LandsatGRPEND) THEN 3
        ELSE IF LandsatIsassignment(line) THEN 2
        ELSE 0
    ELSE IF st = 2 THEN
        IF Islinetype(line, LandsatGRPEND) THEN 3
        ELSE IF LandsatIsassignment(line) THEN 2
        ELSE 0
    ELSE IF st = 3 THEN
        IF Islinetype(line, LandsatGRPSTART) THEN 1
        ELSE IF Islinetype(line, LandsatGRPEND) THEN 3
        ELSE IF Isfinal(line) THEN 4
        ELSE 0
    ELSE 0

\* landsatutils._checkstatus
LandsatCheckstatus(st, line) ==
    IF LandsatNewstatus(st, line) # 0 THEN Ret(LandsatNewstatus(st, line))
    ELSE IF st # 4 THEN
        IF st = NoneStatus THEN Raise("TypeError") ELSE Raise("LandsatMTLParseError")
    ELSE Ret(NoneStatus)

\* landsatutils._transstat, as far as it decides whether the line is accepted:
\* the grouppath it leaves, or the exception it raises
LandsatTransstat(st, gp, line) ==
    IF st = 0 THEN Raise("LandsatMTLParseError")
    ELSE IF st = 1 THEN Ret(Append(gp, Last(Split(Strip(line), LandsatGRPSTART))))
    ELSE IF st = 2 THEN
        IF Len(Split(Strip(line), LandsatASSIGNCHAR)) # 2 THEN Raise("ValueError")
        ELSE Ret(gp)
    ELSE IF st = 3 THEN
        IF gp = <<>> THEN Raise("IndexError")
        ELSE IF Last(Split(Strip(line), LandsatGRPEND)) # Last(gp)
        THEN Raise("LandsatMTLParseError")
        ELSE Ret(DelLast(gp))
    ELSE IF st = 4 THEN
        IF gp # <<>> THEN Raise("LandsatMTLParseError") ELSE Ret(gp)
    ELSE Ret(gp)

\* one iteration of the loop of landsatutils.parsemeta; once a line has raised
\* no further line is read
LandsatIterate(m, line) ==
    LET Moved(st, ts) ==
            IF ts.kind = "raise" THEN [m EXCEPT !.raised = TRUE, !.status = st]
            ELSE [m EXCEPT !.status = st, !.grouppath = ts.val]
        Checked(cs) ==
            IF cs.kind = "raise" THEN [m EXCEPT !.raised = TRUE]
            ELSE Moved(cs.val, LandsatTransstat(cs.val, m.grouppath, line))
    IN  IF m.raised THEN m ELSE Checked(LandsatCheckstatus(m.status, line))

\* the machine of landsatutils after the lines given
RECURSIVE LandsatRun(_)
LandsatRun(lines) ==
    IF lines = <<>> THEN [status |-> 0, grouppath |-> <<>>, raised |-> FALSE]
    ELSE LandsatIterate(LandsatRun(SubSeq(lines, 1, Len(lines) - 1)), Last(lines))


\* the raw line of the plain dialect that a sanitized line comes from (no two
\* lines of PlainLines have the same sanitized form)
RawOf(line) == CHOOSE raw \in PlainLines : Sanitized[raw] = line
RawHist == [i \in 1..Len(hist) |-> RawOf(hist[i].line)]

NamesOf(gp) == [i \in 1..Len(gp) |-> gp[i].name]

\* a GROUP line directly follows an assignment line
GroupAfterAssignment(lines) ==
    \E i \in 1..(Len(lines) - 1) :
        Kind(lines[i]) = "ASSIGNMENT" /\ Kind(lines[i + 1]) = "GROUP_START"

\* a line follows an END line
LineAfterEnd(lines) == \E i \in 1..(Len(lines) - 1) : Isfinal(lines[i])

----------------------------------------------------------------------------
(* C26: a line classified as an assignment yields exactly one pair, the key  *)
(* being the text before the first assignment marker and the raw value       *)
(* everything after it, also when the value contains the marker: the pair    *)
(* _getmetadataitem returns has these two parts, the unpacking of it does    *)
(* not fail, and in a group that is not ignored the key is stored with the   *)
(* value inferred from that raw value.                                       *)

FirstMarker(line) ==
    CHOOSE i \in 1..Len(line) : line[i] = ASSIGNCHAR /\ \A j \in 1..(i - 1) : line[j] # ASSIGNCHAR
KeyBefore(line) == SubSeq(line, 1, FirstMarker(line) - 1)
ValueAfter(line) == SubSeq(line, FirstMarker(line) + 1, Len(line))

\* the line read last was classified as an assignment, inside a group that is
\* not ignored
AssignsInGroup ==
    /\ hist # <<>>
    /\ status = 2
    /\ Kind(Last(hist).line) = "ASSIGNMENT"
    /\ GrouppathBefore # <<>>
    /\ Last(GrouppathBefore).kind = "g"
    /\ Last(GrouppathBefore).name \notin IGNOREGROUPS

C26_AssignmentYieldsOnePair ==
    AssignsInGroup =>
        LET line == Last(hist).line
            currentdict == DictAt(metadata, Last(dictpath)).items
        IN  /\ Getmetadataitem(line) = <<KeyBefore(line), ValueAfter(line)>>
            /\ pc # "raised"
            /\ OdHas(currentdict, StrVal(KeyBefore(line)))
            /\ Postprocess(ValueAfter(line)).kind # "raise"
            /\ OdGet(currentdict, StrVal(KeyBefore(line))) = Postprocess(ValueAfter(line)).val

----------------------------------------------------------------------------
(* C27: for every raw line, _sanitizeline returns a string without leading   *)
(* or trailing whitespace and without whitespace directly before or after    *)
(* an assignment marker, whether the raw line had whitespace on both sides   *)
(* of the marker or on one side only; a blank line yields the empty string.  *)

NoSpaceAtMarker(line) ==
    \A i \in 1..Len(line) :
        line[i] = ASSIGNCHAR =>
            /\ i > 1 => ~IsSpace(line[i - 1])
            /\ i < Len(line) => ~IsSpace(line[i + 1])

IsBlank(line) == \A i \in 1..Len(line) : IsSpace(line[i])

C27_SanitizedHasNoSpaceAtMarker ==
    (hist # <<>> /\ arg # <<>>) =>
        LET line == Last(hist).line
        IN  /\ line = Sanitizeline(arg)
            /\ line # <<>> => ~IsSpace(Head(line)) /\ ~IsSpace(Last(line))
            /\ NoSpaceAtMarker(line)
            /\ IsBlank(arg) => line = <<>>

----------------------------------------------------------------------------
(* C28: a VALUE assignment inside a PARAMETERVALUE object changes the value  *)
(* of exactly one existing key of the enclosing composite: the composite     *)
(* has the same keys before and after, every other key keeps its value, and  *)
(* no other composite of the tree is changed.                                *)

\* the keys of one composite (not of the composites below it)
KeysAt(items) == {items[i].k : i \in 1..Len(items)}

\* the step reads VALUE=... with a PARAMETERVALUE object innermost
FoldsValue ==
    /\ pc = "reading"
    /\ status \in NonTerminal
    /\ Len(hist') = Len(hist) + 1
    /\ Kind(Last(hist').line) = "ASSIGNMENT"
    /\ KeyOf(Last(hist').line) = VALUE
    /\ grouppath # <<>>
    /\ Last(grouppath) = Object(PARAMETERVALUE)

C28_FoldChangesOneKey ==
    [][FoldsValue =>
          LET cur == Last(dictpath)
              before == DictAt(metadata, cur).items
              after == DictAt(metadata', cur).items
          IN  /\ pc' = "reading"
              /\ dictpath' = dictpath
              /\ KeysAt(after) = KeysAt(before)
              /\ \E k \in KeysAt(before) :
                    \A j \in KeysAt(before) \ {k} : OdGet(after, j) = OdGet(before, j)
              /\ metadata' = DictPut(metadata, cur, after)]_vars

----------------------------------------------------------------------------
(* C29: objects never contribute a nesting level.  An OBJECT line and an     *)
(* END_OBJECT line change only grouppath (the one pushes the object, the     *)
(* other pops it after the name check), an assignment inside an object       *)
(* whose key is not VALUE changes nothing, and all three leave dictpath and  *)
(* the tree as they were.                                                    *)

\* the step reads a line of the kind given
ReadsKind(kind) ==
    /\ pc = "reading"
    /\ status \in NonTerminal
    /\ Len(hist') = Len(hist) + 1
    /\ Kind(Last(hist').line) = kind

\* the step reads an assignment to another key than VALUE inside an object
AssignsOtherKeyInObject ==
    /\ ReadsKind("ASSIGNMENT")
    /\ KeyOf(Last(hist').line) # VALUE
    /\ grouppath # <<>>
    /\ Last(grouppath).kind = "o"

\* what the three kinds of step leave alone
ObjectStepsKeepTree ==
    /\ ReadsKind("OBJECT_START") =>
         /\ dictpath' = dictpath /\ metadata' = metadata
         /\ pc' = "reading" =>
               grouppath' = Append(grouppath, Object(NameOf(Last(hist').line)))
    /\ ReadsKind("OBJECT_END") =>
         /\ dictpath' = dictpath /\ metadata' = metadata
         /\ pc' = "reading" =>
               /\ grouppath # <<>>
               /\ Last(grouppath).name = NameOf(Last(hist').line)
               /\ grouppath' = DelLast(grouppath)
    /\ AssignsOtherKeyInObject =>
         /\ dictpath' = dictpath /\ metadata' = metadata /\ grouppath' = grouppath
         /\ pc' = "reading"

C29_ObjectsAddNoLevel == [][ObjectStepsKeepTree]_vars

----------------------------------------------------------------------------
(* C30: the transitions of _checkstatus against the list of its docstring    *)

\* the transitions the docstring lists (its "3 --> 6" is listed twice)
DocstringTransitions ==
    { <<0, 1>>, <<0, 4>>,
      <<1, 1>>, <<1, 2>>, <<1, 3>>, <<1, 5>>,
      <<2, 1>>, <<2, 2>>, <<2, 3>>, <<2, 5>>,
      <<3, 1>>, <<3, 2>>, <<3, 4>>, <<3, 5>>, <<3, 6>>,
      <<5, 1>>, <<5, 2>>, <<5, 5>>, <<5, 6>>,
      <<6, 1>>, <<6, 2>>, <<6, 5>>, <<6, 6>> }

\* the transitions the docstring leaves out
UnlistedTransitions == { <<2, 6>>, <<3, 3>>, <<5, 3>>, <<6, 3>> }

\* the step reads a non-blank line
ReadsNonBlank ==
    /\ pc = "reading"
    /\ Len(hist') = Len(hist) + 1
    /\ Last(hist').line # <<>>

\* what _checkstatus returns is a transition of the set given, or None in
\* status 4
ReturnsOnly(transitions, st, line) ==
    Checkstatus(st, line).kind = "return" =>
        \/ <<st, Checkstatus(st, line).val>> \in transitions
        \/ st = 4 /\ Checkstatus(st, line).val = NoneStatus

====
